---- MODULE Spec2Model ----
(***************************************************************************)
(* UK101RE: a 6502 interpreter (cpu6502.c), its bus decoder                *)
(* (motherboard.c), the MC6850 ACIA (mc6850.c), the host terminal          *)
(* (terminal.c) and the driver loop (uk101re.c).                           *)
(*                                                                         *)
(* All file-scope storage of the translation units is held in one record,  *)
(* mach; its fields carry the names of the C variables.  A C function      *)
(* f(args) that only changes state is an operator f(m, args) giving the    *)
(* new record; one that also returns a value gives [m |-> ..., v |-> ...]. *)
(***************************************************************************)
EXTENDS Integers, Sequences, FiniteSets, TLC

VARIABLES
    mach,   \* the statics of cpu6502.c, motherboard.c, mc6850.c, terminal.c, options,
            \* with mach.log, the record of what the last operation did
    pre,    \* mach as it was when that operation began
    nmis,   \* number of cpu_nmi() calls made so far
    resets, \* number of motherboard_reset() and cpu_reset() calls made from outside
    tty,    \* keys typed at the host terminal, not yet taken by getchar()
    typed,  \* number of keys typed so far
    dpc,    \* position of main() in its loop
    batch,  \* main()'s local variable cycles
    tpc,    \* position of the stdin_handler thread
    tch     \* the thread's local variable ch

vars == <<mach, pre, nmis, resets, tty, typed, dpc, batch, tpc, tch>>

-----------------------------------------------------------------------------
(* Fixed-width arithmetic *)

W8(x) == x % 256

W16(x) == x % 65536

RECURSIVE BitAnd(_, _)
BitAnd(a, b) ==
    IF a = 0 \/ b = 0 THEN 0
    ELSE (a % 2) * (b % 2) + 2 * BitAnd(a \div 2, b \div 2)

RECURSIVE BitOr(_, _)
BitOr(a, b) ==
    IF a = 0 THEN b
    ELSE IF b = 0 THEN a
    ELSE (IF a % 2 = 1 \/ b % 2 = 1 THEN 1 ELSE 0) + 2 * BitOr(a \div 2, b \div 2)

RECURSIVE BitXor(_, _)
BitXor(a, b) ==
    IF a = 0 THEN b
    ELSE IF b = 0 THEN a
    ELSE ((a + b) % 2) + 2 * BitXor(a \div 2, b \div 2)

\* C truth value of an integer expression
Bool(c) == IF c THEN 1 ELSE 0

\* F applied to the value of e: the rest of a function body after a call
Bind(e, F(_)) == F(e)

\* (int8_t) of a byte
Int8(b) == IF b >= 128 THEN b - 256 ELSE b

-----------------------------------------------------------------------------
(* Byte arrays.  An array is kept as the function from the indices of its  *)
(* bytes that differ from the fill value to those bytes.                   *)

Load(arr, k, fill) == IF k \in DOMAIN arr THEN arr[k] ELSE fill

Store(arr, k, d, fill) ==
    IF d = fill THEN [a \in DOMAIN arr \ {k} |-> arr[a]]
    ELSE [a \in DOMAIN arr \cup {k} |-> IF a = k THEN d ELSE arr[a]]

\* the bytes bs placed from address base on
Piece(base, bs) == [a \in base .. base + Len(bs) - 1 |-> bs[a - base + 1]]

-----------------------------------------------------------------------------
(* The log of an operation: <<"call", f>> for the public function called,  *)
(* then, in order, <<"read", address, byte>> and <<"write", address, byte>>*)
(* for every bus access, and <<"do_irq", vector>>, <<"illegal_opcode", o>>,*)
(* <<"cpu_reset">>, <<"mc6850_reset">> where those functions are entered,  *)
(* and <<"level", l>> for the argument of cpu_irq.                         *)

Log(m, e) == [m EXCEPT !.log = Append(m.log, e)]

Call(m, f) == [m EXCEPT !.log = << <<"call", f>> >>]

Did(m, kind) == \E i \in 1 .. Len(m.log) : m.log[i][1] = kind

Events(m, kind) == SelectSeq(m.log, LAMBDA e : e[1] = kind)

-----------------------------------------------------------------------------
(* terminal.h, terminal.c *)

CTRL_J == 10
CTRL_M == 13
CTRL_R == 18
CTRL_X == 24
ACTION_NONE == 0
ACTION_RESET == 1

check_keyboard_ready(m) ==
    IF m.flag_datafile # 0 THEN Bool(m.datasize # 0) ELSE m.stdin_has_data

\* read_keyboard giving the key of the thread whether or not it is new
read_keyboard_stale(m) ==
    [m |-> [m EXCEPT !.stdin_has_data = 0], v |-> W8(m.stdin_value)]

read_keyboard(m) ==
    LET fromfile == m.flag_datafile # 0 /\ m.datasize # 0
        fromkey == m.flag_datafile = 0 /\ m.stdin_has_data # 0
        ch == IF fromfile THEN Head(m.datafile)
              ELSE IF fromkey THEN m.stdin_value
              ELSE 0
    IN [m |-> IF fromfile
              THEN [m EXCEPT !.datafile = Tail(m.datafile),
                             !.datasize = m.datasize - 1,
                             !.flag_datafile =
                                 IF m.datasize - 1 = 0 THEN 0 ELSE m.flag_datafile]
              ELSE IF fromkey THEN [m EXCEPT !.stdin_has_data = 0]
              ELSE m,
        v |-> W8(IF ch = CTRL_J THEN CTRL_M ELSE ch)]

\* write_terminal without its putchar
write_terminal_silent(m, byte) == m

write_terminal(m, byte) == [m EXCEPT !.stdout = Append(m.stdout, byte)]

-----------------------------------------------------------------------------
(* mc6850.c *)

\* mc6850_reset leaving the control register as it is
mc6850_reset_keeps_CR(m) ==
    [Log(m, <<"mc6850_reset">>) EXCEPT !.TDR = 0, !.RDR = 0, !.SR = 14]

mc6850_reset(m) ==
    [Log(m, <<"mc6850_reset">>) EXCEPT !.TDR = 0, !.RDR = 0, !.CR = 0, !.SR = 14]

\* mc6850_readbyte without SR &= 0xFE
mc6850_readbyte_keeping_RDRF(m, address) ==
    IF BitAnd(address, 1) = 0
    THEN LET m1 == IF check_keyboard_ready(m) # 0
                   THEN [m EXCEPT !.SR = BitOr(m.SR, 1)]
                   ELSE m
         IN [m |-> m1, v |-> m1.SR]
    ELSE Bind(read_keyboard(m), LAMBDA k : [m |-> [k.m EXCEPT !.RDR = k.v], v |-> k.v])

mc6850_readbyte(m, address) ==
    IF BitAnd(address, 2048) = 0
    THEN IF BitAnd(address, 1) = 0
         THEN LET m1 == IF check_keyboard_ready(m) # 0
                        THEN [m EXCEPT !.SR = BitOr(m.SR, 1)]
                        ELSE m
              IN [m |-> m1, v |-> m1.SR]
         ELSE Bind(read_keyboard(m), LAMBDA k :
                  [m |-> [k.m EXCEPT !.RDR = k.v, !.SR = BitAnd(k.m.SR, 254)],
                   v |-> k.v])
    ELSE [m |-> m, v |-> 255]

mc6850_writebyte(m, address, data) ==
    IF BitAnd(address, 2048) = 0
    THEN IF BitAnd(address, 1) = 0
         THEN [m EXCEPT !.CR = data]
         ELSE [write_terminal(m, data) EXCEPT !.SR = BitOr(m.SR, 2)]
    ELSE m

-----------------------------------------------------------------------------
(* motherboard.c *)

ROMMASK == 32767
RAMMASK == 32767

\* a byte the ROM file does not set in the images below
RomFill == \hFF

rom_readbyte(m, address) == Load(m.ROM, BitAnd(address, ROMMASK), RomFill)

\* rom_writebyte storing into the array the mask 7FFF shares with the RAM
rom_writebyte_into_RAM(m, address, data) ==
    [m EXCEPT !.RAM = Store(m.RAM, BitAnd(address, ROMMASK), data, 0)]

rom_writebyte(m, address, data) == m

ram_readbyte(m, address) == Load(m.RAM, BitAnd(address, RAMMASK), 0)

ram_writebyte(m, address, data) ==
    [m EXCEPT !.RAM = Store(m.RAM, BitAnd(address, RAMMASK), data, 0)]

\* the decoder without the case of the ACIA, the ROM read in its place
motherboard_readbyte_no_ACIA(m, address) ==
    Bind(CASE address \in 0 .. 32767 -> [m |-> m, v |-> ram_readbyte(m, address)]
           [] address \in 32768 .. 65535 -> [m |-> m, v |-> rom_readbyte(m, address)]
           [] OTHER -> [m |-> m, v |-> 255],
         LAMBDA r : [m |-> Log(r.m, <<"read", address, r.v>>), v |-> r.v])

motherboard_readbyte(m, address) ==
    Bind(CASE address \in 0 .. 32767 -> [m |-> m, v |-> ram_readbyte(m, address)]
           [] address \in 32768 .. 61439 -> [m |-> m, v |-> rom_readbyte(m, address)]
           [] address \in 61440 .. 63487 -> mc6850_readbyte(m, address)
           [] address \in 63488 .. 65535 -> [m |-> m, v |-> rom_readbyte(m, address)]
           [] OTHER -> [m |-> m, v |-> 255],
         LAMBDA r : [m |-> Log(r.m, <<"read", address, r.v>>), v |-> r.v])

motherboard_writebyte(m, address, data) ==
    Log(CASE address \in 0 .. 32767 -> ram_writebyte(m, address, data)
          [] address \in 32768 .. 61439 -> rom_writebyte(m, address, data)
          [] address \in 61440 .. 63487 -> mc6850_writebyte(m, address, data)
          [] address \in 63488 .. 65535 -> rom_writebyte(m, address, data)
          [] OTHER -> m,
        <<"write", address, data>>)

-----------------------------------------------------------------------------
(* cpu6502.c: vectors, status register, common tasks *)

IRQ_VECTOR == 65534
RST_VECTOR == 65532
NMI_VECTOR == 65530
B_Flag_Mask == 16

\* set_P taking I from bit 4 of the byte
set_P_reading_B(m, data) ==
    [m EXCEPT !.N_Flag = BitAnd(data, 128),
              !.V_Flag = BitAnd(data, 64),
              !.D_Flag = BitAnd(data, 8),
              !.I_Flag = BitAnd(data, 20),
              !.Z_Flag = BitAnd(data, 2),
              !.C_Flag = BitAnd(data, 1)]

set_P(m, data) ==
    [m EXCEPT !.N_Flag = BitAnd(data, 128),
              !.V_Flag = BitAnd(data, 64),
              !.D_Flag = BitAnd(data, 8),
              !.I_Flag = BitAnd(data, 4),
              !.Z_Flag = BitAnd(data, 2),
              !.C_Flag = BitAnd(data, 1)]

get_P(m) ==
    32 + (IF m.N_Flag # 0 THEN 128 ELSE 0)
       + (IF m.V_Flag # 0 THEN 64 ELSE 0)
       + (IF m.D_Flag # 0 THEN 8 ELSE 0)
       + (IF m.I_Flag # 0 THEN 4 ELSE 0)
       + (IF m.Z_Flag # 0 THEN 2 ELSE 0)
       + (IF m.C_Flag # 0 THEN 1 ELSE 0)

word(high, low) == BitOr(W16(high * 256), low)

read_byte(m, address) == motherboard_readbyte(m, address)

write_byte(m, address, data) == motherboard_writebyte(m, address, data)

read_word(m, address) ==
    Bind(read_byte(m, address), LAMBDA low :
    Bind(read_byte(low.m, W16(address + 1)), LAMBDA high :
        [m |-> high.m, v |-> word(high.v, low.v)]))

fetch(m) ==
    Bind(read_byte(m, m.PC), LAMBDA r :
        [m |-> [r.m EXCEPT !.PC = W16(m.PC + 1)], v |-> r.v])

fetch16(m) ==
    Bind(fetch(m), LAMBDA low :
    Bind(fetch(low.m), LAMBDA high :
        [m |-> high.m, v |-> word(high.v, low.v)]))

update_NZ(m, data) ==
    [m EXCEPT !.N_Flag = BitAnd(data, 128), !.Z_Flag = Bool(data = 0)]

\* push writing at SP, not at 0x0100 | SP
push_into_page_zero(m, data) ==
    [write_byte(m, m.SP, data) EXCEPT !.SP = W8(m.SP - 1)]

push(m, data) ==
    [write_byte(m, BitOr(256, m.SP), data) EXCEPT !.SP = W8(m.SP - 1)]

\* pop reading at 0x0100 | SP before SP++
pop_then_increment(m) ==
    read_byte([m EXCEPT !.SP = W8(m.SP + 1)], BitOr(256, m.SP))

pop(m) ==
    read_byte([m EXCEPT !.SP = W8(m.SP + 1)], BitOr(256, W8(m.SP + 1)))

push16(m, data) == push(push(m, BitAnd(data \div 256, 255)), BitAnd(data, 255))

pop16(m) ==
    Bind(pop(m), LAMBDA low :
    Bind(pop(low.m), LAMBDA high :
        [m |-> high.m, v |-> word(high.v, low.v)]))

compare(m, a, b) ==
    [m EXCEPT !.C_Flag = Bool(a >= b),
              !.Z_Flag = Bool(a - b = 0),
              !.N_Flag = BitAnd(W8(a - b), 128)]

\* do_irq pushing the status byte the way BRK does
do_irq_as_BRK(m, vector) ==
    Bind(push16(Log(m, <<"do_irq", vector>>), m.PC), LAMBDA m1 :
    Bind(push(m1, BitOr(get_P(m1), B_Flag_Mask)), LAMBDA m2 :
    Bind(read_word([m2 EXCEPT !.I_Flag = 1], vector), LAMBDA pc :
        [pc.m EXCEPT !.PC = pc.v, !.cycles = m.cycles + 7])))

do_irq(m, vector) ==
    Bind(push16(Log(m, <<"do_irq", vector>>), m.PC), LAMBDA m1 :
    Bind(push(m1, get_P(m1)), LAMBDA m2 :
    Bind(read_word([m2 EXCEPT !.I_Flag = 1], vector), LAMBDA pc :
        [pc.m EXCEPT !.PC = pc.v, !.cycles = m.cycles + 7])))

-----------------------------------------------------------------------------
(* cpu6502.c: addressing modes; each gives the state after the operand     *)
(* fetch and the effective address                                         *)

absolute(m) == fetch16(m)

absoluteX(m) ==
    Bind(fetch16(m), LAMBDA f : [m |-> f.m, v |-> W16(f.v + m.X)])

\* cycles++ when address and e_address lie in different pages
PageCross(f, e_address, cross) ==
    [m |-> [f.m EXCEPT !.cycles = f.m.cycles + Bool(cross)], v |-> e_address]

\* absoluteX_1 without the cycle of the page crossing
absoluteX_1_unpenalised(m) ==
    Bind(fetch16(m), LAMBDA f : PageCross(f, W16(f.v + m.X), FALSE))

absoluteX_1(m) ==
    Bind(fetch16(m), LAMBDA f :
        PageCross(f, W16(f.v + m.X),
                  BitAnd(f.v, 65280) # BitAnd(W16(f.v + m.X), 65280)))

absoluteY(m) ==
    Bind(fetch16(m), LAMBDA f : [m |-> f.m, v |-> W16(f.v + m.Y)])

absoluteY_1(m) ==
    Bind(fetch16(m), LAMBDA f :
        PageCross(f, W16(f.v + m.Y),
                  BitAnd(f.v, 65280) # BitAnd(W16(f.v + m.Y), 65280)))

inmediate(m) == [m |-> [m EXCEPT !.PC = W16(m.PC + 1)], v |-> m.PC]

indirect(m) ==
    Bind(fetch16(m), LAMBDA f : read_word(f.m, f.v))

indirectX(m) ==
    Bind(fetch(m), LAMBDA f :
    Bind(read_byte(f.m, W8(f.v + m.X)), LAMBDA low :
    Bind(read_byte(low.m, W8(W8(f.v + m.X) + 1)), LAMBDA high :
        [m |-> high.m, v |-> word(high.v, low.v)])))

indirectY(m) ==
    Bind(fetch(m), LAMBDA f :
    Bind(read_byte(f.m, f.v), LAMBDA low :
    Bind(read_byte(low.m, W8(f.v + 1)), LAMBDA high :
        [m |-> high.m, v |-> W16(word(high.v, low.v) + m.Y)])))

\* indirectY_1 reading the high byte of the base at the operand plus one
\* without the wrap within page zero
indirectY_1_unwrapped(m) ==
    Bind(fetch(m), LAMBDA f :
    Bind(read_byte(f.m, f.v), LAMBDA low :
    Bind(read_byte(low.m, f.v + 1), LAMBDA high :
        PageCross(high, W16(word(high.v, low.v) + m.Y),
                  (W16(word(high.v, low.v) + m.Y) \div 256) # high.v))))

indirectY_1(m) ==
    Bind(fetch(m), LAMBDA f :
    Bind(read_byte(f.m, f.v), LAMBDA low :
    Bind(read_byte(low.m, W8(f.v + 1)), LAMBDA high :
        PageCross(high, W16(word(high.v, low.v) + m.Y),
                  (W16(word(high.v, low.v) + m.Y) \div 256) # high.v))))

zeropage(m) == fetch(m)

zeropageX(m) ==
    Bind(fetch(m), LAMBDA f : [m |-> f.m, v |-> BitAnd(f.v + m.X, 255)])

zeropageY(m) ==
    Bind(fetch(m), LAMBDA f : [m |-> f.m, v |-> BitAnd(f.v + m.Y, 255)])

-----------------------------------------------------------------------------
(* cpu6502.c: instruction cores *)

\* the decimal branch of ADC, op2 read into r
\* the decimal branch without if (dec_h > 0x90) dec_h += 0x60
ADC_decimal_unadjusted(m, op1, op2, cin) ==
    LET l0 == BitAnd(op1, 15) + BitAnd(op2, 15) + cin
        h0 == BitAnd(op1, 240) + BitAnd(op2, 240)
        dec_l == IF l0 > 9 THEN l0 + 6 ELSE l0
        h1 == IF l0 > 9 THEN h0 + 16 ELSE h0
    IN [m EXCEPT !.Z_Flag = Bool(BitAnd(l0 + h0, 255) = 0),
                 !.N_Flag = BitAnd(h1, 128),
                 !.V_Flag = BitAnd(128 - BitAnd(BitXor(op1, op2), 128),
                                   BitXor(op1, h1)),
                 !.C_Flag = W8(h1 \div 256),
                 !.A = BitOr(BitAnd(dec_l, 15), BitAnd(h1, 240))]

ADC_decimal(m, op1, op2, cin) ==
    LET l0 == BitAnd(op1, 15) + BitAnd(op2, 15) + cin
        h0 == BitAnd(op1, 240) + BitAnd(op2, 240)
        dec_l == IF l0 > 9 THEN l0 + 6 ELSE l0
        h1 == IF l0 > 9 THEN h0 + 16 ELSE h0
        dec_h == IF h1 > 144 THEN h1 + 96 ELSE h1
    IN [m EXCEPT !.Z_Flag = Bool(BitAnd(l0 + h0, 255) = 0),
                 !.N_Flag = BitAnd(h1, 128),
                 !.V_Flag = BitAnd(128 - BitAnd(BitXor(op1, op2), 128),
                                   BitXor(op1, h1)),
                 !.C_Flag = W8(dec_h \div 256),
                 !.A = BitOr(BitAnd(dec_l, 15), BitAnd(dec_h, 240))]

\* the binary branch of ADC, and of SBC with op2 inverted
ADC_binary(m, op1, op2, cin) ==
    LET aux == op1 + op2 + cin
        a == BitAnd(aux, 255)
    IN [update_NZ(m, a) EXCEPT
            !.A = a,
            !.C_Flag = aux \div 256,
            !.V_Flag = Bool(BitAnd(op1, 128) = BitAnd(op2, 128)
                            /\ BitAnd(op1, 128) # BitAnd(a, 128))]

ADC(m, address) ==
    Bind(read_byte(m, address), LAMBDA r :
        IF m.D_Flag # 0
        THEN ADC_decimal(r.m, m.A, r.v, Bool(m.C_Flag # 0))
        ELSE ADC_binary(r.m, m.A, r.v, Bool(m.C_Flag # 0)))

AND(m, address) ==
    Bind(read_byte(m, address), LAMBDA r :
        update_NZ([r.m EXCEPT !.A = BitAnd(m.A, r.v)], BitAnd(m.A, r.v)))

ASL(m, address) ==
    Bind(read_byte(m, address), LAMBDA r :
        write_byte(update_NZ([r.m EXCEPT !.C_Flag = BitAnd(r.v, 128)], W8(r.v * 2)),
                   address, W8(r.v * 2)))

ASL_ACC(m) ==
    update_NZ([m EXCEPT !.C_Flag = BitAnd(m.A, 128), !.A = W8(m.A * 2)], W8(m.A * 2))

BIT(m, address) ==
    Bind(read_byte(m, address), LAMBDA r :
        [r.m EXCEPT !.N_Flag = BitAnd(r.v, 128),
                    !.V_Flag = BitAnd(r.v, 64),
                    !.Z_Flag = Bool(BitAnd(r.v, m.A) = 0)])

BRK(m) ==
    Bind(push16(m, W16(m.PC + 1)), LAMBDA m2 :
    Bind(push(m2, BitOr(get_P(m2), B_Flag_Mask)), LAMBDA m3 :
    Bind(read_word([m3 EXCEPT !.I_Flag = 1], IRQ_VECTOR), LAMBDA pc :
        [pc.m EXCEPT !.PC = pc.v])))

\* the branch: PC is already past the operand, reljmp is the operand
\* the branch comparing the target's page with that of the branch opcode
Branch_from_opcode_page(m, condition, reljmp) ==
    LET e_address == W16(m.PC + W16(Int8(reljmp)))
        cross == BitAnd(e_address, 65280) # BitAnd(W16(m.PC - 2), 65280)
    IN IF condition # 0
       THEN [m EXCEPT !.cycles = m.cycles + 1 + Bool(cross), !.PC = e_address]
       ELSE m

Branch(m, condition, reljmp) ==
    LET e_address == W16(m.PC + W16(Int8(reljmp)))
        cross == BitAnd(e_address, 65280) # BitAnd(m.PC, 65280)
    IN IF condition # 0
       THEN [m EXCEPT !.cycles = m.cycles + 1 + Bool(cross), !.PC = e_address]
       ELSE m

BXX(m, condition) ==
    Bind(read_byte(m, m.PC), LAMBDA r :
        Branch([r.m EXCEPT !.PC = W16(m.PC + 1)], condition, r.v))

CLC(m) == [m EXCEPT !.C_Flag = 0]

CLD(m) == [m EXCEPT !.D_Flag = 0]

CLI(m) == [m EXCEPT !.I_Flag = 0]

CLV(m) == [m EXCEPT !.V_Flag = 0]

CMP(m, address) ==
    Bind(read_byte(m, address), LAMBDA r : compare(r.m, m.A, r.v))

CPX(m, address) ==
    Bind(read_byte(m, address), LAMBDA r : compare(r.m, m.X, r.v))

CPY(m, address) ==
    Bind(read_byte(m, address), LAMBDA r : compare(r.m, m.Y, r.v))

DEC(m, address) ==
    Bind(read_byte(m, address), LAMBDA r :
        write_byte(update_NZ(r.m, W8(r.v - 1)), address, W8(r.v - 1)))

DEX(m) == update_NZ([m EXCEPT !.X = W8(m.X - 1)], W8(m.X - 1))

DEY(m) == update_NZ([m EXCEPT !.Y = W8(m.Y - 1)], W8(m.Y - 1))

EOR(m, address) ==
    Bind(read_byte(m, address), LAMBDA r :
        update_NZ([r.m EXCEPT !.A = BitXor(m.A, r.v)], BitXor(m.A, r.v)))

INC(m, address) ==
    Bind(read_byte(m, address), LAMBDA r :
        write_byte(update_NZ(r.m, W8(r.v + 1)), address, W8(r.v + 1)))

INX(m) == update_NZ([m EXCEPT !.X = W8(m.X + 1)], W8(m.X + 1))

INY(m) == update_NZ([m EXCEPT !.Y = W8(m.Y + 1)], W8(m.Y + 1))

JMP(m, address) == [m EXCEPT !.PC = address]

\* JSR pushing the address after its operand
JSR_pushing_PC(m, address) == [push16(m, m.PC) EXCEPT !.PC = address]

JSR(m, address) == [push16(m, W16(m.PC - 1)) EXCEPT !.PC = address]

LDA(m, address) ==
    Bind(read_byte(m, address), LAMBDA r : update_NZ([r.m EXCEPT !.A = r.v], r.v))

LDX(m, address) ==
    Bind(read_byte(m, address), LAMBDA r : update_NZ([r.m EXCEPT !.X = r.v], r.v))

LDY(m, address) ==
    Bind(read_byte(m, address), LAMBDA r : update_NZ([r.m EXCEPT !.Y = r.v], r.v))

LSR(m, address) ==
    Bind(read_byte(m, address), LAMBDA r :
        write_byte(update_NZ([r.m EXCEPT !.C_Flag = BitAnd(r.v, 1)], r.v \div 2),
                   address, r.v \div 2))

LSR_ACC(m) ==
    update_NZ([m EXCEPT !.C_Flag = BitAnd(m.A, 1), !.A = m.A \div 2], m.A \div 2)

ORA(m, address) ==
    Bind(read_byte(m, address), LAMBDA r :
        update_NZ([r.m EXCEPT !.A = BitOr(m.A, r.v)], BitOr(m.A, r.v)))

PHA(m) == push(m, m.A)

PHP(m) == push(m, BitOr(get_P(m), B_Flag_Mask))

PLA(m) ==
    Bind(pop(m), LAMBDA r : update_NZ([r.m EXCEPT !.A = r.v], r.v))

PLP(m) ==
    Bind(pop(m), LAMBDA r : set_P(r.m, r.v))

\* data <<= 1; if (oldC_Flag) data |= 0x01
RolByte(data, oldC_Flag) == BitOr(W8(data * 2), Bool(oldC_Flag # 0))

\* data >>= 1; if (oldC_Flag) data |= 0x80
RorByte(data, oldC_Flag) == BitOr(data \div 2, IF oldC_Flag # 0 THEN 128 ELSE 0)

ROL(m, address) ==
    Bind(read_byte(m, address), LAMBDA r :
        write_byte(update_NZ([r.m EXCEPT !.C_Flag = BitAnd(r.v, 128)],
                             RolByte(r.v, m.C_Flag)),
                   address, RolByte(r.v, m.C_Flag)))

ROL_ACC(m) ==
    update_NZ([m EXCEPT !.C_Flag = BitAnd(m.A, 128), !.A = RolByte(m.A, m.C_Flag)],
              RolByte(m.A, m.C_Flag))

ROR(m, address) ==
    Bind(read_byte(m, address), LAMBDA r :
        write_byte(update_NZ([r.m EXCEPT !.C_Flag = BitAnd(r.v, 1)],
                             RorByte(r.v, m.C_Flag)),
                   address, RorByte(r.v, m.C_Flag)))

ROR_ACC(m) ==
    update_NZ([m EXCEPT !.C_Flag = BitAnd(m.A, 1), !.A = RorByte(m.A, m.C_Flag)],
              RorByte(m.A, m.C_Flag))

\* RTI returning to the address after the one pulled, as RTS does
RTI_as_RTS(m) ==
    Bind(pop(m), LAMBDA p :
    Bind(pop16(set_P(p.m, p.v)), LAMBDA pc :
        [pc.m EXCEPT !.PC = W16(pc.v + 1)]))

RTI(m) ==
    Bind(pop(m), LAMBDA p :
    Bind(pop16(set_P(p.m, p.v)), LAMBDA pc :
        [pc.m EXCEPT !.PC = pc.v]))

RTS(m) ==
    Bind(pop16(m), LAMBDA pc : [pc.m EXCEPT !.PC = W16(pc.v + 1)])

\* the decimal branch of SBC; nc is (C_Flag == 0x00)
SBC_decimal(m, op1, op2, nc) ==
    LET aux == W16(op1 - op2 - nc)
        l0 == W16(BitAnd(op1, 15) - BitAnd(op2, 15) - nc)
        h0 == W16(BitAnd(op1, 240) - BitAnd(op2, 240))
        adj == BitAnd(l0, 16) # 0
        dec_l == IF adj THEN W16(l0 - 6) ELSE l0
        h1 == IF adj THEN W16(h0 - 1) ELSE h0
        dec_h == IF BitAnd(h1, 256) # 0 THEN W16(h1 - 96) ELSE h1
    IN [m EXCEPT !.V_Flag = BitAnd(BitAnd(BitXor(op1, op2), BitXor(op1, aux)), 128),
                 !.C_Flag = Bool(BitAnd(aux, 65280) = 0),
                 !.Z_Flag = Bool(BitAnd(aux, 255) = 0),
                 !.N_Flag = BitAnd(aux, 128),
                 !.A = BitOr(BitAnd(dec_l, 15), BitAnd(dec_h, 240))]

\* SBC adding the operand as it is read, without the ~
SBC_not_inverting(m, address) ==
    Bind(read_byte(m, address), LAMBDA r :
        IF m.D_Flag # 0
        THEN SBC_decimal(r.m, m.A, r.v, Bool(m.C_Flag = 0))
        ELSE ADC_binary(r.m, m.A, r.v, Bool(m.C_Flag # 0)))

SBC(m, address) ==
    Bind(read_byte(m, address), LAMBDA r :
        IF m.D_Flag # 0
        THEN SBC_decimal(r.m, m.A, r.v, Bool(m.C_Flag = 0))
        ELSE ADC_binary(r.m, m.A, 255 - r.v, Bool(m.C_Flag # 0)))

SEC(m) == [m EXCEPT !.C_Flag = 1]

SED(m) == [m EXCEPT !.D_Flag = 1]

SEI(m) == [m EXCEPT !.I_Flag = 1]

STA(m, address) == write_byte(m, address, m.A)

STX(m, address) == write_byte(m, address, m.X)

STY(m, address) == write_byte(m, address, m.Y)

TAX(m) == update_NZ([m EXCEPT !.X = m.A], m.A)

TAY(m) == update_NZ([m EXCEPT !.Y = m.A], m.A)

TSX(m) == update_NZ([m EXCEPT !.X = m.SP], m.SP)

TXA(m) == update_NZ([m EXCEPT !.A = m.X], m.X)

TXS(m) == [m EXCEPT !.SP = m.X]

TYA(m) == update_NZ([m EXCEPT !.A = m.Y], m.Y)

-----------------------------------------------------------------------------
(* cpu6502.c: the public functions *)

cpu_irq(m, level) == [m EXCEPT !.IRQ_PIN_LEVEL = level]

\* cpu_nmi leaving the entry to a later step
cpu_nmi_deferred(m) == m

cpu_nmi(m) == do_irq(m, NMI_VECTOR)

\* cpu_reset leaving the registers and the IRQ line low, clearing the cycles
cpu_reset_of_all(m) ==
    Bind(read_word(set_P([Log(m, <<"cpu_reset">>) EXCEPT
                              !.A = 0, !.X = 0, !.Y = 0, !.SP = 253,
                              !.IRQ_PIN_LEVEL = 1, !.cycles = 0], 54),
                   RST_VECTOR), LAMBDA pc :
        [pc.m EXCEPT !.PC = pc.v])

\* cpu_reset pushing PC and the status byte as an interrupt entry does
cpu_reset_pushing(m) ==
    Bind(push16(Log(m, <<"cpu_reset">>), m.PC), LAMBDA m1 :
    Bind(push(m1, get_P(m1)), LAMBDA m2 :
    Bind(read_word(set_P([m2 EXCEPT !.A = 0, !.X = 0, !.Y = 0, !.SP = 253], 54),
                   RST_VECTOR), LAMBDA pc :
        [pc.m EXCEPT !.PC = pc.v])))

cpu_reset(m) ==
    Bind(read_word(set_P([Log(m, <<"cpu_reset">>) EXCEPT
                              !.A = 0, !.X = 0, !.Y = 0, !.SP = 253], 54),
                   RST_VECTOR), LAMBDA pc :
        [pc.m EXCEPT !.PC = pc.v])

\* illegal_opcode doing nothing, as a NOP
illegal_opcode_as_NOP(m, opcode) == m

\* stderr keeps the opcode and the PC - 1 of the last diagnostic printed
illegal_opcode(m, opcode) ==
    cpu_reset([Log(m, <<"illegal_opcode", opcode>>) EXCEPT !.stderr = <<opcode, m.PC - 1>>])

-----------------------------------------------------------------------------
(* cpu6502.c: the switch of cpu_execute, as a table *)

\* the instruction core each case of the switch calls, by opcode + 1
OpInstr ==
    <<"BRK", "ORA", "illegal_opcode", "illegal_opcode", "illegal_opcode", "ORA", "ASL", "illegal_opcode",
      "PHP", "ORA", "ASL_ACC", "illegal_opcode", "illegal_opcode", "ORA", "ASL", "illegal_opcode",
      "BXX", "ORA", "illegal_opcode", "illegal_opcode", "illegal_opcode", "ORA", "ASL", "illegal_opcode",
      "CLC", "ORA", "illegal_opcode", "illegal_opcode", "illegal_opcode", "ORA", "ASL", "illegal_opcode",
      "JSR", "AND", "illegal_opcode", "illegal_opcode", "BIT", "AND", "ROL", "illegal_opcode",
      "PLP", "AND", "ROL_ACC", "illegal_opcode", "BIT", "AND", "ROL", "illegal_opcode",
      "BXX", "AND", "illegal_opcode", "illegal_opcode", "illegal_opcode", "AND", "ROL", "illegal_opcode",
      "SEC", "AND", "illegal_opcode", "illegal_opcode", "illegal_opcode", "AND", "ROL", "illegal_opcode",
      "RTI", "EOR", "illegal_opcode", "illegal_opcode", "illegal_opcode", "EOR", "LSR", "illegal_opcode",
      "PHA", "EOR", "LSR_ACC", "illegal_opcode", "JMP", "EOR", "LSR", "illegal_opcode",
      "BXX", "EOR", "illegal_opcode", "illegal_opcode", "illegal_opcode", "EOR", "LSR", "illegal_opcode",
      "CLI", "EOR", "illegal_opcode", "illegal_opcode", "illegal_opcode", "EOR", "LSR", "illegal_opcode",
      "RTS", "ADC", "illegal_opcode", "illegal_opcode", "illegal_opcode", "ADC", "ROR", "illegal_opcode",
      "PLA", "ADC", "ROR_ACC", "illegal_opcode", "JMP", "ADC", "ROR", "illegal_opcode",
      "BXX", "ADC", "illegal_opcode", "illegal_opcode", "illegal_opcode", "ADC", "ROR", "illegal_opcode",
      "SEI", "ADC", "illegal_opcode", "illegal_opcode", "illegal_opcode", "ADC", "ROR", "illegal_opcode",
      "illegal_opcode", "STA", "illegal_opcode", "illegal_opcode", "STY", "STA", "STX", "illegal_opcode",
      "DEY", "illegal_opcode", "TXA", "illegal_opcode", "STY", "STA", "STX", "illegal_opcode",
      "BXX", "STA", "illegal_opcode", "illegal_opcode", "STY", "STA", "STX", "illegal_opcode",
      "TYA", "STA", "TXS", "illegal_opcode", "illegal_opcode", "STA", "illegal_opcode", "illegal_opcode",
      "LDY", "LDA", "LDX", "illegal_opcode", "LDY", "LDA", "LDX", "illegal_opcode",
      "TAY", "LDA", "TAX", "illegal_opcode", "LDY", "LDA", "LDX", "illegal_opcode",
      "BXX", "LDA", "illegal_opcode", "illegal_opcode", "LDY", "LDA", "LDX", "illegal_opcode",
      "CLV", "LDA", "TSX", "illegal_opcode", "LDY", "LDA", "LDX", "illegal_opcode",
      "CPY", "CMP", "illegal_opcode", "illegal_opcode", "CPY", "CMP", "DEC", "illegal_opcode",
      "INY", "CMP", "DEX", "illegal_opcode", "CPY", "CMP", "DEC", "illegal_opcode",
      "BXX", "CMP", "illegal_opcode", "illegal_opcode", "illegal_opcode", "CMP", "DEC", "illegal_opcode",
      "CLD", "CMP", "illegal_opcode", "illegal_opcode", "illegal_opcode", "CMP", "DEC", "illegal_opcode",
      "CPX", "SBC", "illegal_opcode", "illegal_opcode", "CPX", "SBC", "INC", "illegal_opcode",
      "INX", "SBC", "NOP", "illegal_opcode", "CPX", "SBC", "INC", "illegal_opcode",
      "BXX", "SBC", "illegal_opcode", "illegal_opcode", "illegal_opcode", "SBC", "INC", "illegal_opcode",
      "SED", "SBC", "illegal_opcode", "illegal_opcode", "illegal_opcode", "SBC", "INC", "illegal_opcode">>

\* the argument of that call: an addressing mode or a branch condition
OpArg ==
    <<"", "indirectX", "", "", "", "zeropage", "zeropage", "",
      "", "inmediate", "", "", "", "absolute", "absolute", "",
      "!N_Flag", "indirectY_1", "", "", "", "zeropageX", "zeropageX", "",
      "", "absoluteY_1", "", "", "", "absoluteX_1", "absoluteX", "",
      "absolute", "indirectX", "", "", "zeropage", "zeropage", "zeropage", "",
      "", "inmediate", "", "", "absolute", "absolute", "absolute", "",
      "N_Flag", "indirectY_1", "", "", "", "zeropageX", "zeropageX", "",
      "", "absoluteY_1", "", "", "", "absoluteX_1", "absoluteX", "",
      "", "indirectX", "", "", "", "zeropage", "zeropage", "",
      "", "inmediate", "", "", "absolute", "absolute", "absolute", "",
      "!V_Flag", "indirectY_1", "", "", "", "zeropageX", "zeropageX", "",
      "", "absoluteY_1", "", "", "", "absoluteX_1", "absoluteX", "",
      "", "indirectX", "", "", "", "zeropage", "zeropage", "",
      "", "inmediate", "", "", "indirect", "absolute", "absolute", "",
      "V_Flag", "indirectY_1", "", "", "", "zeropageX", "zeropageX", "",
      "", "absoluteY_1", "", "", "", "absoluteX_1", "absoluteX", "",
      "", "indirectX", "", "", "zeropage", "zeropage", "zeropage", "",
      "", "", "", "", "absolute", "absolute", "absolute", "",
      "!C_Flag", "indirectY", "", "", "zeropageX", "zeropageX", "zeropageY", "",
      "", "absoluteY", "", "", "", "absoluteX", "", "",
      "inmediate", "indirectX", "inmediate", "", "zeropage", "zeropage", "zeropage", "",
      "", "inmediate", "", "", "absolute", "absolute", "absolute", "",
      "C_Flag", "indirectY_1", "", "", "zeropageX", "zeropageX", "zeropageY", "",
      "", "absoluteY_1", "", "", "absoluteX_1", "absoluteX_1", "absoluteY_1", "",
      "inmediate", "indirectX", "", "", "zeropage", "zeropage", "zeropage", "",
      "", "inmediate", "", "", "absolute", "absolute", "absolute", "",
      "!Z_Flag", "indirectY_1", "", "", "", "zeropageX", "zeropageX", "",
      "", "absoluteY_1", "", "", "", "absoluteX_1", "absoluteX", "",
      "inmediate", "indirectX", "", "", "zeropage", "zeropage", "zeropage", "",
      "", "inmediate", "", "", "absolute", "absolute", "absolute", "",
      "Z_Flag", "indirectY_1", "", "", "", "zeropageX", "zeropageX", "",
      "", "absoluteY_1", "", "", "", "absoluteX_1", "absoluteX", "">>

\* the cycles that case adds
OpCycles ==
    <<7, 6, 0, 0, 0, 3, 5, 0,
      3, 2, 2, 0, 0, 4, 6, 0,
      2, 5, 0, 0, 0, 4, 6, 0,
      2, 4, 0, 0, 0, 4, 7, 0,
      6, 6, 0, 0, 3, 3, 5, 0,
      4, 2, 2, 0, 4, 4, 6, 0,
      2, 5, 0, 0, 0, 4, 6, 0,
      2, 4, 0, 0, 0, 4, 7, 0,
      6, 6, 0, 0, 0, 3, 5, 0,
      3, 2, 2, 0, 3, 4, 6, 0,
      2, 5, 0, 0, 0, 4, 6, 0,
      2, 4, 0, 0, 0, 4, 7, 0,
      6, 6, 0, 0, 0, 3, 5, 0,
      4, 2, 2, 0, 5, 4, 6, 0,
      2, 5, 0, 0, 0, 4, 6, 0,
      2, 4, 0, 0, 0, 4, 7, 0,
      0, 6, 0, 0, 3, 3, 3, 0,
      2, 0, 2, 0, 4, 4, 4, 0,
      2, 6, 0, 0, 4, 4, 4, 0,
      2, 5, 2, 0, 0, 5, 0, 0,
      2, 6, 2, 0, 3, 3, 3, 0,
      2, 2, 2, 0, 4, 4, 4, 0,
      2, 5, 0, 0, 4, 4, 4, 0,
      2, 4, 2, 0, 4, 4, 4, 0,
      2, 6, 0, 0, 3, 3, 5, 0,
      2, 2, 2, 0, 4, 4, 6, 0,
      2, 5, 0, 0, 0, 4, 6, 0,
      2, 4, 0, 0, 0, 4, 7, 0,
      2, 6, 0, 0, 3, 3, 5, 0,
      2, 2, 2, 0, 4, 4, 6, 0,
      2, 5, 0, 0, 0, 4, 6, 0,
      2, 4, 0, 0, 0, 4, 7, 0>>

\* the value of the call's argument: an effective address with the state
\* after the operand fetch, or a branch condition; nothing for a call
\* without argument
Operand(m, arg) ==
    CASE arg = "absolute" -> absolute(m)
      [] arg = "absoluteX" -> absoluteX(m)
      [] arg = "absoluteX_1" -> absoluteX_1(m)
      [] arg = "absoluteY" -> absoluteY(m)
      [] arg = "absoluteY_1" -> absoluteY_1(m)
      [] arg = "inmediate" -> inmediate(m)
      [] arg = "indirect" -> indirect(m)
      [] arg = "indirectX" -> indirectX(m)
      [] arg = "indirectY" -> indirectY(m)
      [] arg = "indirectY_1" -> indirectY_1(m)
      [] arg = "zeropage" -> zeropage(m)
      [] arg = "zeropageX" -> zeropageX(m)
      [] arg = "zeropageY" -> zeropageY(m)
      [] arg = "N_Flag" -> [m |-> m, v |-> m.N_Flag]
      [] arg = "!N_Flag" -> [m |-> m, v |-> Bool(m.N_Flag = 0)]
      [] arg = "V_Flag" -> [m |-> m, v |-> m.V_Flag]
      [] arg = "!V_Flag" -> [m |-> m, v |-> Bool(m.V_Flag = 0)]
      [] arg = "C_Flag" -> [m |-> m, v |-> m.C_Flag]
      [] arg = "!C_Flag" -> [m |-> m, v |-> Bool(m.C_Flag = 0)]
      [] arg = "Z_Flag" -> [m |-> m, v |-> m.Z_Flag]
      [] arg = "!Z_Flag" -> [m |-> m, v |-> Bool(m.Z_Flag = 0)]
      [] OTHER -> [m |-> m, v |-> 0]

\* the call of instruction core ins with its argument e
Core(ins, e) ==
    CASE ins = "ADC" -> ADC(e.m, e.v)
      [] ins = "AND" -> AND(e.m, e.v)
      [] ins = "ASL" -> ASL(e.m, e.v)
      [] ins = "ASL_ACC" -> ASL_ACC(e.m)
      [] ins = "BIT" -> BIT(e.m, e.v)
      [] ins = "BRK" -> BRK(e.m)
      [] ins = "BXX" -> BXX(e.m, e.v)
      [] ins = "CLC" -> CLC(e.m)
      [] ins = "CLD" -> CLD(e.m)
      [] ins = "CLI" -> CLI(e.m)
      [] ins = "CLV" -> CLV(e.m)
      [] ins = "CMP" -> CMP(e.m, e.v)
      [] ins = "CPX" -> CPX(e.m, e.v)
      [] ins = "CPY" -> CPY(e.m, e.v)
      [] ins = "DEC" -> DEC(e.m, e.v)
      [] ins = "DEX" -> DEX(e.m)
      [] ins = "DEY" -> DEY(e.m)
      [] ins = "EOR" -> EOR(e.m, e.v)
      [] ins = "INC" -> INC(e.m, e.v)
      [] ins = "INX" -> INX(e.m)
      [] ins = "INY" -> INY(e.m)
      [] ins = "JMP" -> JMP(e.m, e.v)
      [] ins = "JSR" -> JSR(e.m, e.v)
      [] ins = "LDA" -> LDA(e.m, e.v)
      [] ins = "LDX" -> LDX(e.m, e.v)
      [] ins = "LDY" -> LDY(e.m, e.v)
      [] ins = "LSR" -> LSR(e.m, e.v)
      [] ins = "LSR_ACC" -> LSR_ACC(e.m)
      [] ins = "NOP" -> e.m
      [] ins = "ORA" -> ORA(e.m, e.v)
      [] ins = "PHA" -> PHA(e.m)
      [] ins = "PHP" -> PHP(e.m)
      [] ins = "PLA" -> PLA(e.m)
      [] ins = "PLP" -> PLP(e.m)
      [] ins = "ROL" -> ROL(e.m, e.v)
      [] ins = "ROL_ACC" -> ROL_ACC(e.m)
      [] ins = "ROR" -> ROR(e.m, e.v)
      [] ins = "ROR_ACC" -> ROR_ACC(e.m)
      [] ins = "RTI" -> RTI(e.m)
      [] ins = "RTS" -> RTS(e.m)
      [] ins = "SBC" -> SBC(e.m, e.v)
      [] ins = "SEC" -> SEC(e.m)
      [] ins = "SED" -> SED(e.m)
      [] ins = "SEI" -> SEI(e.m)
      [] ins = "STA" -> STA(e.m, e.v)
      [] ins = "STX" -> STX(e.m, e.v)
      [] ins = "STY" -> STY(e.m, e.v)
      [] ins = "TAX" -> TAX(e.m)
      [] ins = "TAY" -> TAY(e.m)
      [] ins = "TSX" -> TSX(e.m)
      [] ins = "TXA" -> TXA(e.m)
      [] ins = "TXS" -> TXS(e.m)
      [] ins = "TYA" -> TYA(e.m)

AddCycles(m, n) == [m EXCEPT !.cycles = m.cycles + n]

\* one case of the switch: the call, then cycles += n
Dispatch(m, opcode) ==
    IF OpInstr[opcode + 1] = "illegal_opcode"
    THEN illegal_opcode(m, opcode)
    ELSE AddCycles(Bind(Operand(m, OpArg[opcode + 1]),
                        LAMBDA e : Core(OpInstr[opcode + 1], e)),
                   OpCycles[opcode + 1])

\* the test without the I flag
irq_due_unmasked(m) == m.IRQ_PIN_LEVEL = 0

\* the test that decides the IRQ entry at the start of cpu_execute
irq_due(m) == ~(m.IRQ_PIN_LEVEL # 0 \/ m.I_Flag # 0)

\* cpu_execute returning right after an IRQ entry
cpu_execute_entry_alone(m) ==
    IF ~(m.IRQ_PIN_LEVEL # 0 \/ m.I_Flag # 0)
    THEN do_irq([m EXCEPT !.cycles = 0], IRQ_VECTOR)
    ELSE Bind(fetch([m EXCEPT !.cycles = 0]), LAMBDA f : Dispatch(f.m, f.v))

cpu_execute(m) ==
    Bind(fetch(IF irq_due(m) THEN do_irq([m EXCEPT !.cycles = 0], IRQ_VECTOR)
               ELSE [m EXCEPT !.cycles = 0]),
         LAMBDA f : Dispatch(f.m, f.v))

\* motherboard.c
motherboard_reset(m) == cpu_reset(mc6850_reset(m))

-----------------------------------------------------------------------------
(* ROM files.  A file is given by the bytes at the addresses they are read *)
(* from; every other byte of the 32768 is RomFill.                         *)

At(address, bs) == Piece(BitAnd(address, ROMMASK), bs)

Vectors(nmi, rst, irq) ==
    At(NMI_VECTOR, <<nmi % 256, nmi \div 256, rst % 256, rst \div 256,
                     irq % 256, irq \div 256>>)

\* F800 LDX #$FF; TXS; LDA #$5A; STA $F000; STA $10; LDY #$07; SEC; SED; CLI
\* F80F NOP; CPX #$02; BNE $F80F; F814 the byte 02, no opcode of the switch
\* F820 (IRQ) LDA #$01; RTI ; F830 (NMI) LDX #$02; RTI
IrqRom ==
    At(63488, <<162, 255, 154, 169, 90, 141, 0, 240, 133, 16, 160, 7, 56, 248, 88,
                234, 224, 2, 208, 251, 2>>)
    @@ At(63520, <<169, 1, 64>>)
    @@ At(63536, <<162, 2, 64>>)
    @@ Vectors(63536, 63488, 63520)

\* F800 CLI; F801 the byte b, followed by EA EA; F804 JMP $F804
\* the IRQ and NMI vectors point at b
OpRom(b) ==
    At(63488, <<88, b, 234, 234, 76, 4, 248>>) @@ Vectors(63489, 63488, 63489)

\* F800 LDA $F000; LSR A; BCC $F800; LDA $F001; STA $F001; JMP $F800
EchoRom ==
    At(63488, <<173, 0, 240, 74, 144, 250, 173, 1, 240, 141, 1, 240, 76, 0, 248>>)
    @@ Vectors(63488, 63488, 63488)

-----------------------------------------------------------------------------
(* Start-up: the statics as the loader leaves them, then main() up to its  *)
(* loop: parse_options, configure_terminal, motherboard_init,              *)
(* motherboard_reset                                                       *)

Statics ==
    [A |-> 0, X |-> 0, Y |-> 0, SP |-> 0, PC |-> 0,
     N_Flag |-> 0, V_Flag |-> 0, D_Flag |-> 0, I_Flag |-> 0, Z_Flag |-> 0, C_Flag |-> 0,
     cycles |-> 0, IRQ_PIN_LEVEL |-> 1,
     RAM |-> <<>>, ROM |-> <<>>,
     TDR |-> 0, RDR |-> 0, CR |-> 0, SR |-> 0,
     stdin_value |-> 0, stdin_has_data |-> 0,
     ACTION_ |-> 0,   \* int ACTION of terminal.c

     flag_datafile |-> 0, datafile |-> <<>>, datasize |-> 0,
     stdout |-> <<>>, stderr |-> <<>>, log |-> <<>>]

\* argv names the ROM file and, when hasfile, a data file holding the bytes file
Loaded(rom, hasfile, file) ==
    [Statics EXCEPT !.flag_datafile = Bool(hasfile),
                    !.datafile = IF hasfile THEN file ELSE <<>>,
                    !.datasize = IF hasfile THEN Len(file) ELSE 0,
                    !.ROM = rom]

Boot(rom, hasfile, file) ==
    motherboard_reset(Call(Loaded(rom, hasfile, file), "motherboard_reset"))

-----------------------------------------------------------------------------
(* The machine driven through its public functions *)

\* the calls of cpu_nmi, motherboard_reset and cpu_reset in one run
MaxCalls == 1

op == mach.log[1][2]

preop == pre.log[1][2]

Idle == UNCHANGED <<tty, typed, dpc, batch, tpc, tch>>

Init ==
    /\ mach = Boot(IrqRom, FALSE, <<>>)
    /\ pre = Call(Loaded(IrqRom, FALSE, <<>>), "main")
    /\ nmis = 0 /\ resets = 0
    /\ tty = <<>> /\ typed = 0
    /\ dpc = "run" /\ batch = 0
    /\ tpc = "sleep" /\ tch = 0

Step ==
    /\ mach' = cpu_execute(Call(mach, "cpu_execute"))
    /\ pre' = mach
    /\ UNCHANGED <<nmis, resets>> /\ Idle

Irq ==
    \E level \in {0, 1} :
        /\ mach' = cpu_irq(Log(Call(mach, "cpu_irq"), <<"level", level>>), level)
        /\ pre' = mach
        /\ UNCHANGED <<nmis, resets>> /\ Idle

Nmi ==
    /\ nmis + resets < MaxCalls
    /\ mach' = cpu_nmi(Call(mach, "cpu_nmi"))
    /\ pre' = mach
    /\ nmis' = nmis + 1
    /\ UNCHANGED resets /\ Idle

Reset ==
    /\ nmis + resets < MaxCalls
    /\ mach' = motherboard_reset(Call(mach, "motherboard_reset"))
    /\ pre' = mach
    /\ resets' = resets + 1
    /\ UNCHANGED nmis /\ Idle

CpuReset ==
    /\ nmis + resets < MaxCalls
    /\ mach' = cpu_reset(Call(mach, "cpu_reset"))
    /\ pre' = mach
    /\ resets' = resets + 1
    /\ UNCHANGED nmis /\ Idle

Next == Step \/ Irq \/ Nmi \/ Reset \/ CpuReset

Spec == Init /\ [][Next]_vars

\* the same machine with every byte in turn as the opcode at F801
OpInit ==
    /\ \E b \in 0 .. 255 :
          /\ mach = Boot(OpRom(b), FALSE, <<>>)
          /\ pre = Call(Loaded(OpRom(b), FALSE, <<>>), "main")
    /\ nmis = 0 /\ resets = 0
    /\ tty = <<>> /\ typed = 0
    /\ dpc = "run" /\ batch = 0
    /\ tpc = "sleep" /\ tch = 0

\* the level of the IRQ line is chosen once, before the first step
OpIrq == preop = "main" /\ Irq

OpNext == Step \/ OpIrq

OpSpec == OpInit /\ [][OpNext]_vars

-----------------------------------------------------------------------------
(* uk101re.c, terminal.c: the program as run: the main loop and the       *)
(* keyboard thread, with the keys typed at the terminal as the input      *)

\* stands for the 20000 cycles of one batch of the main loop
BatchCycles == 24
MaxKeys == 2

Keys == {CTRL_R, CTRL_X, CTRL_J, 65}

\* "\n*** CPU Reset ***\n"
ResetBanner == <<10, 42, 42, 42, 32, 67, 80, 85, 32, 82, 101, 115, 101, 116, 32, 42, 42, 42, 10>>

\* "\n*** Ctrl-X ***\n"
ExitBanner == <<10, 42, 42, 42, 32, 67, 116, 114, 108, 45, 88, 32, 42, 42, 42, 10>>

exit_hook(m) == [m EXCEPT !.stdout = m.stdout \o ExitBanner]

DInit ==
    /\ mach = Boot(EchoRom, FALSE, <<>>)
    /\ pre = Call(Loaded(EchoRom, FALSE, <<>>), "main")
    /\ nmis = 0 /\ resets = 0
    /\ tty = <<>> /\ typed = 0
    /\ dpc = "run" /\ batch = 0
    /\ tpc = "sleep" /\ tch = 0

\* a key is typed at the terminal
Type ==
    /\ typed < MaxKeys
    /\ tpc # "exit"
    /\ \E k \in Keys : tty' = Append(tty, k)
    /\ typed' = typed + 1
    /\ UNCHANGED <<mach, pre, nmis, resets, dpc, batch, tpc, tch>>

\* while (cycles < 20000) cycles += cpu_execute();
DRun ==
    /\ dpc = "run" /\ batch < BatchCycles
    /\ mach' = cpu_execute(Call(mach, "cpu_execute"))
    /\ pre' = mach
    /\ batch' = batch + mach'.cycles
    /\ UNCHANGED <<nmis, resets, tty, typed, dpc, tpc, tch>>

\* the test of ACTION made at any step boundary
DPoll_at_any_step ==
    /\ dpc = "run"
    /\ IF mach.ACTION_ # 0
       THEN dpc' = "action" /\ batch' = batch
       ELSE dpc' = "run" /\ batch' = 0
    /\ UNCHANGED <<mach, pre, nmis, resets, tty, typed, tpc, tch>>

\* if (ACTION), at the end of the batch
DPoll ==
    /\ dpc = "run" /\ batch >= BatchCycles
    /\ IF mach.ACTION_ # 0
       THEN dpc' = "action" /\ batch' = batch
       ELSE dpc' = "run" /\ batch' = 0
    /\ UNCHANGED <<mach, pre, nmis, resets, tty, typed, tpc, tch>>

\* the same with motherboard_reset() in the place of cpu_reset()
DAction_resetting_all ==
    /\ dpc = "action"
    /\ IF mach.ACTION_ = ACTION_RESET
       THEN /\ mach' = motherboard_reset(Call([mach EXCEPT !.stdout = mach.stdout \o ResetBanner],
                                              "cpu_reset"))
            /\ pre' = mach
       ELSE UNCHANGED <<mach, pre>>
    /\ dpc' = "clear"
    /\ UNCHANGED <<nmis, resets, tty, typed, batch, tpc, tch>>

\* if (ACTION == ACTION_RESET){ printf(...); cpu_reset(); }
DAction ==
    /\ dpc = "action"
    /\ IF mach.ACTION_ = ACTION_RESET
       THEN /\ mach' = cpu_reset(Call([mach EXCEPT !.stdout = mach.stdout \o ResetBanner],
                                      "cpu_reset"))
            /\ pre' = mach
       ELSE UNCHANGED <<mach, pre>>
    /\ dpc' = "clear"
    /\ UNCHANGED <<nmis, resets, tty, typed, batch, tpc, tch>>

\* ACTION = ACTION_NONE; and the next turn of while(1)
DClear ==
    /\ dpc = "clear"
    /\ mach' = [mach EXCEPT !.ACTION_ = ACTION_NONE]
    /\ dpc' = "run" /\ batch' = 0
    /\ UNCHANGED <<pre, nmis, resets, tty, typed, tpc, tch>>

\* stdin_handler: getchar() returns a key, and the switch on it
TGet ==
    /\ tpc = "sleep" /\ tty # <<>>
    /\ tty' = Tail(tty)
    /\ tch' = Head(tty)
    /\ CASE Head(tty) = CTRL_R ->
              /\ mach' = [mach EXCEPT !.ACTION_ = ACTION_RESET]
              /\ UNCHANGED <<tpc, dpc>>
         [] Head(tty) = CTRL_X ->
              /\ mach' = exit_hook(mach)
              /\ tpc' = "exit" /\ dpc' = "exit"
         [] OTHER ->
              /\ tpc' = "wait"
              /\ UNCHANGED <<mach, dpc>>
    /\ UNCHANGED <<pre, nmis, resets, typed, batch>>

\* the thread going on to stdin_value = ch without the wait
TWait_without_test ==
    /\ tpc = "wait"
    /\ tpc' = "value"
    /\ UNCHANGED <<mach, pre, nmis, resets, tty, typed, dpc, batch, tch>>

\* while(stdin_has_data) nanosleep(...);
TWait ==
    /\ tpc = "wait" /\ mach.stdin_has_data = 0
    /\ tpc' = "value"
    /\ UNCHANGED <<mach, pre, nmis, resets, tty, typed, dpc, batch, tch>>

\* stdin_value = ch;
TValue ==
    /\ tpc = "value"
    /\ mach' = [mach EXCEPT !.stdin_value = tch]
    /\ tpc' = "ready"
    /\ UNCHANGED <<pre, nmis, resets, tty, typed, dpc, batch, tch>>

\* stdin_has_data = 1;
TReady ==
    /\ tpc = "ready"
    /\ mach' = [mach EXCEPT !.stdin_has_data = 1]
    /\ tpc' = "sleep"
    /\ UNCHANGED <<pre, nmis, resets, tty, typed, dpc, batch, tch>>

DNext == Type \/ DRun \/ DPoll \/ DAction \/ DClear \/ TGet \/ TWait \/ TValue \/ TReady

DriverSpec == DInit /\ [][DNext]_vars

-----------------------------------------------------------------------------
(* Properties.  mach is the state after the last operation, pre the state  *)
(* before it, and mach.log what the operation did.                         *)

\* the word the ROM holds at vector
VectorValue(m, vector) == word(rom_readbyte(m, vector + 1), rom_readbyte(m, vector))

\* an interrupt entry through vector is the first thing the operation that
\* led from before to after did: PC pushed high byte first, then the status
\* byte with bit 4 clear, at the stack pointer, and the vector read
EntryFirst(before, after, vector) ==
    /\ Len(after.log) >= 7
    /\ after.log[2][1] = "do_irq" /\ after.log[2][2] = vector
    /\ after.log[3] = <<"write", 256 + before.SP, before.PC \div 256>>
    /\ after.log[4] = <<"write", 256 + W8(before.SP - 1), before.PC % 256>>
    /\ after.log[5] = <<"write", 256 + W8(before.SP - 2), get_P(before)>>
    /\ BitAnd(after.log[5][3], B_Flag_Mask) = 0
    /\ after.log[6][1] = "read" /\ after.log[6][2] = vector
    /\ after.log[7][1] = "read" /\ after.log[7][2] = vector + 1

\* the operation entered an interrupt through vector
Entered(m, vector) ==
    \E i \in 1 .. Len(m.log) : m.log[i][1] = "do_irq" /\ m.log[i][2] = vector

\* the registers and flags cpu_reset sets, with PC at the reset vector's value
InResetState(m) ==
    /\ m.A = 0 /\ m.X = 0 /\ m.Y = 0 /\ m.SP = 253
    /\ m.I_Flag # 0 /\ m.Z_Flag # 0
    /\ m.N_Flag = 0 /\ m.V_Flag = 0 /\ m.D_Flag = 0 /\ m.C_Flag = 0
    /\ m.PC = VectorValue(m, RST_VECTOR)

\* the last operation was a step that began with the IRQ line low and I clear
IrqStep == op = "cpu_execute" /\ pre.IRQ_PIN_LEVEL = 0 /\ pre.I_Flag = 0

\* the cycles the switch adds for opcode, without the penalties
Base(opcode) == OpCycles[opcode + 1]

\* C1, as the source has it: a step that begins with the IRQ line low and I
\* clear makes the interrupt entry through FFFE (PC pushed, the status byte
\* pushed with bit 4 clear, I set) and then, in the same step, fetches the
\* opcode at the vector's value and executes it; the cycles returned are 7
\* plus the cycles of that instruction (7 when that opcode is illegal).
C1_EntryThenInstruction ==
    IrqStep =>
        /\ EntryFirst(pre, mach, IRQ_VECTOR)
        /\ Len(mach.log) >= 8
        /\ mach.log[8][1] = "read"
        /\ mach.log[8][2] = VectorValue(pre, IRQ_VECTOR)
        /\ mach.cycles - 7 - Base(mach.log[8][3]) \in 0 .. 2
        /\ OpInstr[mach.log[8][3] + 1] = "illegal_opcode" => mach.cycles = 7

\* a step that took the IRQ entry and then executed an instruction of more
\* than no cycles, ending away from the vector's value
C1_Witness ==
    /\ IrqStep
    /\ mach.cycles > 7
    /\ mach.PC # VectorValue(pre, IRQ_VECTOR)

\* C1 as claimed: such a step returns exactly 7 cycles with PC at the IRQ
\* vector's value, no opcode fetched
C1_Original ==
    IrqStep =>
        /\ mach.cycles = 7
        /\ mach.PC = VectorValue(pre, IRQ_VECTOR)
        /\ Len(mach.log) = 7

C3_NmiNotMaskable ==
    /\ (op = "cpu_nmi" /\ pre.I_Flag # 0 /\ pre.IRQ_PIN_LEVEL = 0) =>
          /\ EntryFirst(pre, mach, NMI_VECTOR)
          /\ ~Entered(mach, IRQ_VECTOR)
          /\ mach.PC = VectorValue(pre, NMI_VECTOR)
          /\ mach.I_Flag # 0
          /\ BitAnd(Load(mach.RAM, 256 + W8(pre.SP - 2), 0), B_Flag_Mask) = 0
          /\ word(Load(mach.RAM, 256 + pre.SP, 0),
                  Load(mach.RAM, 256 + W8(pre.SP - 1), 0)) = pre.PC
    /\ (op = "cpu_execute" /\ preop = "cpu_nmi" /\ pre.IRQ_PIN_LEVEL = 0
            /\ BitAnd(pre.log[5][3], 4) # 0) =>
          /\ ~Did(mach, "do_irq")
          /\ mach.log[2][1] = "read"
          /\ mach.log[2][2] = VectorValue(pre, NMI_VECTOR)

\* cpu_nmi was called with I set and the IRQ line low (the status byte it
\* pushed has bit 2 set), and the step after it ran the handler
C3_Witness ==
    /\ op = "cpu_execute" /\ preop = "cpu_nmi"
    /\ pre.IRQ_PIN_LEVEL = 0
    /\ BitAnd(pre.log[5][3], 4) # 0
    /\ BitAnd(pre.log[5][3], B_Flag_Mask) = 0
    /\ mach.X = 2

\* C3 as claimed: it is the step after the call that vectors through FFFA
C3_Original ==
    (op = "cpu_execute" /\ preop = "cpu_nmi" /\ pre.IRQ_PIN_LEVEL = 0
        /\ BitAnd(pre.log[5][3], 4) # 0) =>
        Entered(mach, NMI_VECTOR)

\* C4: cpu_irq records the level and nothing else; a step makes an IRQ entry
\* exactly when the line is low and I is clear as it begins, as the first
\* thing it does and once; so the entry is taken again at each step that
\* begins with the line still low and I clear again.
C4_IrqLevelAndMask ==
    /\ op = "cpu_irq" =>
          /\ mach.IRQ_PIN_LEVEL = mach.log[2][2]
          /\ [mach EXCEPT !.IRQ_PIN_LEVEL = 1, !.log = <<>>]
                 = [pre EXCEPT !.IRQ_PIN_LEVEL = 1, !.log = <<>>]
    /\ op = "cpu_execute" =>
          /\ Entered(mach, IRQ_VECTOR) <=> (pre.IRQ_PIN_LEVEL = 0 /\ pre.I_Flag = 0)
          /\ Entered(mach, IRQ_VECTOR) => EntryFirst(pre, mach, IRQ_VECTOR)
          /\ Len(Events(mach, "do_irq")) <= 1
          /\ ~Entered(mach, NMI_VECTOR)

\* the entry taken again: the step before was the RTI of the handler, which
\* cleared I, the line is still low, and this step enters once more
C4_Witness ==
    /\ op = "cpu_execute" /\ preop = "cpu_execute"
    /\ pre.log[2] = <<"read", 63522, 64>>
    /\ Entered(mach, IRQ_VECTOR)

\* the registers of the ACIA as mc6850_reset leaves them
AciaReset(m) == m.SR = 14 /\ m.TDR = 0 /\ m.RDR = 0 /\ m.CR = 0

\* C5: after motherboard_reset from any state SP = FD, A = X = Y = 0, the
\* flags are I and Z set and N, V, D, C clear (36 as PHP packs them, with
\* bits 5 and 4), PC is the word the ROM holds at FFFC/FFFD, and the ACIA
\* has SR = 0E and TDR, RDR, CR zero.
C5_ResetState ==
    op = "motherboard_reset" =>
        /\ mach.SP = 253
        /\ mach.A = 0 /\ mach.X = 0 /\ mach.Y = 0
        /\ mach.I_Flag # 0 /\ mach.Z_Flag # 0
        /\ mach.D_Flag = 0 /\ mach.C_Flag = 0 /\ mach.N_Flag = 0 /\ mach.V_Flag = 0
        /\ BitOr(get_P(mach), B_Flag_Mask) = 54
        /\ mach.PC = word(Load(mach.ROM, BitAnd(65533, ROMMASK), RomFill),
                          Load(mach.ROM, BitAnd(65532, ROMMASK), RomFill))
        /\ mach.SR = 14 /\ mach.TDR = 0 /\ mach.RDR = 0 /\ mach.CR = 0

\* a reset of a machine whose registers, flags and ACIA control register
\* were all away from their reset values
C5_Witness ==
    /\ op = "motherboard_reset"
    /\ pre.A # 0 /\ pre.X # 0 /\ pre.Y # 0 /\ pre.SP # 253
    /\ pre.D_Flag # 0 /\ pre.C_Flag # 0 /\ pre.I_Flag = 0
    /\ pre.CR # 0
    /\ pre.PC # VectorValue(pre, RST_VECTOR)

\* the registers, flags, PC and ACIA registers: what a reset sets
ResetPart(m) ==
    <<m.A, m.X, m.Y, m.SP, m.PC,
      m.N_Flag, m.V_Flag, m.D_Flag, m.I_Flag, m.Z_Flag, m.C_Flag,
      m.TDR, m.RDR, m.CR, m.SR>>

\* C6, as the source has it: a second motherboard_reset right after one
\* changes nothing, and a motherboard_reset from any reachable state gives
\* the same registers, flags, PC and ACIA registers as the reset at start-up;
\* the level of the IRQ line and the cycle counter are not reset: they keep
\* the values they had.
C6_ResetIdempotent ==
    op = "motherboard_reset" =>
        /\ motherboard_reset(Call(mach, "motherboard_reset")) = mach
        /\ ResetPart(mach) = ResetPart(Boot(mach.ROM, FALSE, <<>>))
        /\ mach.IRQ_PIN_LEVEL = pre.IRQ_PIN_LEVEL
        /\ mach.cycles = pre.cycles

\* a reset of a machine with the IRQ line low, a cycle count and registers
\* away from their reset values
C6_Witness ==
    /\ op = "motherboard_reset"
    /\ pre.IRQ_PIN_LEVEL = 0 /\ pre.cycles # 0
    /\ pre.A # 0 /\ pre.CR # 0
    /\ mach.IRQ_PIN_LEVEL = 0 /\ mach.cycles # 0

\* C6 as claimed: from any reachable state the reset yields the same CPU
\* state, of which the level of the IRQ line and the cycle counter are part
C6_Original ==
    op = "motherboard_reset" =>
        /\ ResetPart(mach) = ResetPart(Boot(mach.ROM, FALSE, <<>>))
        /\ mach.IRQ_PIN_LEVEL = Boot(mach.ROM, FALSE, <<>>).IRQ_PIN_LEVEL
        /\ mach.cycles = Boot(mach.ROM, FALSE, <<>>).cycles

\* the place in the log where a reset begins, 0 when the operation has none
ResetAt(m) ==
    IF \E i \in 1 .. Len(m.log) : m.log[i][1] \in {"mc6850_reset", "cpu_reset"}
    THEN CHOOSE i \in 1 .. Len(m.log) :
            /\ m.log[i][1] \in {"mc6850_reset", "cpu_reset"}
            /\ \A j \in 1 .. i - 1 : m.log[j][1] \notin {"mc6850_reset", "cpu_reset"}
    ELSE 0

\* C7: no reset changes RAM or pushes on the stack: in a call of
\* motherboard_reset, in a call of cpu_reset (the reset of the main loop)
\* and in a step that fetches an illegal opcode, nothing is written to the
\* bus once the reset has begun, RAM is as it was before the operation, and
\* SP is set to FD without a push.
C7_RamPersists ==
    ResetAt(mach) # 0 =>
        /\ \A i \in ResetAt(mach) .. Len(mach.log) : mach.log[i][1] # "write"
        /\ Events(mach, "write") = <<>> => mach.RAM = pre.RAM
        /\ op \in {"motherboard_reset", "cpu_reset"} => Events(mach, "write") = <<>>
        /\ mach.SP = 253

\* a step that fetched the illegal opcode at F814, with bytes in RAM
C7_Witness ==
    /\ op = "cpu_execute"
    /\ Did(mach, "illegal_opcode")
    /\ Load(pre.RAM, 16, 0) = 90
    /\ \E a \in 256 .. 511 : Load(pre.RAM, a, 0) # 0
    /\ mach.RAM = pre.RAM

\* the step of the main loop from its test of ACTION to the reset
C8_Action ==
    /\ (dpc = "action" /\ dpc' = "clear") =>
          IF mach.ACTION_ = ACTION_RESET
          THEN /\ op' = "cpu_reset" /\ pre' = mach
               /\ InResetState(mach')
               /\ ~Did(mach', "mc6850_reset")
               /\ <<mach'.SR, mach'.RDR, mach'.TDR, mach'.CR>>
                      = <<mach.SR, mach.RDR, mach.TDR, mach.CR>>
               /\ mach'.stdout = mach.stdout \o ResetBanner
          ELSE mach' = mach
    /\ (dpc = "clear" /\ dpc' = "run") => mach'.ACTION_ = ACTION_NONE

\* C8, as the source has it: when the main loop finds ACTION set to
\* ACTION_RESET it prints its banner and calls cpu_reset, not
\* motherboard_reset: the CPU is in its reset state, the ACIA is not reset
\* and keeps SR, RDR, TDR and CR as they were; then the loop clears ACTION.
C8_DriverResetsCpuOnly == [][C8_Action]_vars

\* after the reset of the main loop, with ACTION cleared, the ACIA still
\* holds the key received before
C8_Witness ==
    /\ op = "cpu_reset" /\ dpc = "run"
    /\ mach.ACTION_ = ACTION_NONE
    /\ InResetState(mach)
    /\ mach.RDR = 65

\* C8 as claimed: after the reset of the main loop the ACIA has SR = 0E and
\* RDR = TDR = CR = 0 and the CPU is in its reset state
C8_Original == op = "cpu_reset" => AciaReset(mach) /\ InResetState(mach)

\* the main loop and its test of ACTION
C9_Action ==
    /\ (dpc = "run" /\ dpc' = "action") => (batch >= BatchCycles /\ mach.ACTION_ # 0)
    /\ (dpc = "run" /\ batch < BatchCycles /\ mach.ACTION_ # 0 /\ dpc' # "exit") =>
          dpc' = "run"
    /\ (op' = "cpu_reset" /\ pre' = mach) => dpc = "action"
    /\ (dpc \in {"action", "clear"} /\ pre' = mach) => op' = "cpu_reset"

\* C9, as the source has it: ACTION is tested only when a batch of steps has
\* reached its cycle count (20000), not at every step: once the keyboard
\* thread has set it, the steps of the batch go on with it set, the reset is
\* made at the end of the batch, and no step runs between the test and the
\* clearing of ACTION.
C9_PolledPerBatch == [][C9_Action]_vars

\* two steps in a row began with ACTION set, and the batch is not over
C9_Witness ==
    /\ op = "cpu_execute" /\ preop = "cpu_execute"
    /\ pre.ACTION_ = ACTION_RESET /\ mach.ACTION_ = ACTION_RESET
    /\ dpc = "run" /\ batch < BatchCycles

\* C9 as claimed: after a step that began with ACTION set (the instruction
\* in progress), no further step runs with ACTION still set
C9_Original ==
    [][~(op = "cpu_execute" /\ pre.ACTION_ # 0 /\ mach.ACTION_ # 0 /\ DRun)]_vars

\* C10, as the source has it: a step that fetches an opcode the switch does
\* not know leaves A = X = Y = 0, SP = FD, the reset flags and PC at the
\* reset vector's value, and adds no cycles; it writes nothing once the
\* opcode is fetched, and nothing at all unless that same step first made
\* an IRQ entry, whose three pushes stay in the stack page; the step after
\* it fetches its opcode at the reset vector's value.
C10_IllegalOpcodeResets ==
    /\ (op = "cpu_execute" /\ Did(mach, "illegal_opcode")) =>
          /\ InResetState(mach)
          /\ mach.cycles = IF Entered(mach, IRQ_VECTOR) THEN 7 ELSE 0
          /\ \A i \in ResetAt(mach) .. Len(mach.log) : mach.log[i][1] # "write"
          /\ Len(Events(mach, "write")) = IF Entered(mach, IRQ_VECTOR) THEN 3 ELSE 0
          /\ ~Entered(mach, IRQ_VECTOR) => mach.RAM = pre.RAM
          /\ Entered(mach, IRQ_VECTOR) =>
                \A a \in 0 .. 32767 :
                    Load(mach.RAM, a, 0) # Load(pre.RAM, a, 0) =>
                        a \in {256 + pre.SP, 256 + W8(pre.SP - 1), 256 + W8(pre.SP - 2)}
    /\ (op = "cpu_execute" /\ preop = "cpu_execute" /\ Did(pre, "illegal_opcode")) =>
          /\ mach.log[2][1] = "read"
          /\ mach.log[2][2] = VectorValue(pre, RST_VECTOR)
    /\ op = "cpu_execute" =>
          LET fetched == IF pre.IRQ_PIN_LEVEL = 0 /\ pre.I_Flag = 0
                         THEN mach.log[8][3] ELSE mach.log[2][3]
          IN Did(mach, "illegal_opcode") <=> OpInstr[fetched + 1] = "illegal_opcode"

\* the step after a step that made an IRQ entry and then fetched an illegal
\* opcode at the vector
C10_Witness ==
    /\ op = "cpu_execute" /\ preop = "cpu_execute"
    /\ Did(pre, "illegal_opcode") /\ Entered(pre, IRQ_VECTOR)
    /\ pre.PC = VectorValue(pre, RST_VECTOR)
    /\ mach.log[2][2] = VectorValue(pre, RST_VECTOR)

\* C10 as claimed: the step that fetches an illegal opcode writes neither
\* the stack nor any RAM byte
C10_Original ==
    (op = "cpu_execute" /\ Did(mach, "illegal_opcode")) =>
        /\ InResetState(mach)
        /\ Events(mach, "write") = <<>>
        /\ mach.RAM = pre.RAM

-----------------------------------------------------------------------------
(* motherboard.c: the bus on its own, accessed as read_byte and write_byte *)
(* of cpu6502.c access it, with any address of BusAddrs in any order       *)

\* a ROM file with a byte of its own at each offset the addresses below reach,
\* and at the offsets 7000-77FF behind the ACIA
BusRom ==
    (0 :> 128) @@ (16 :> 129) @@ (28671 :> 239)
    @@ (28672 :> 112) @@ (28673 :> 113) @@ (30718 :> 126) @@ (30719 :> 119)
    @@ (30720 :> 248) @@ (32767 :> 254)

\* 0010 7FFF | 8000 8010 EFFF | F000 F001 F7FE F7FF | F800 FFFF
BusAddrs == {16, 32767, 32768, 32784, 61439, 61440, 61441, 63486, 63487, 63488, 65535}

BusData == {65, 255}

\* the bytes written to the terminal in one run
MaxOut == 1

BusInit ==
    /\ mach = Boot(BusRom, TRUE, <<65>>)
    /\ pre = Call(Loaded(BusRom, TRUE, <<65>>), "main")
    /\ nmis = 0 /\ resets = 0
    /\ tty = <<>> /\ typed = 0
    /\ dpc = "run" /\ batch = 0
    /\ tpc = "sleep" /\ tch = 0

\* mach without the log of the operation before
Unlogged(m) == [m EXCEPT !.log = <<>>]

BusRead ==
    \E address \in BusAddrs :
        /\ mach' = motherboard_readbyte(Call(mach, "motherboard_readbyte"), address).m
        /\ pre' = Unlogged(mach)
        /\ UNCHANGED <<nmis, resets>> /\ Idle

BusWrite ==
    \E address \in BusAddrs, data \in BusData :
        /\ mach' = motherboard_writebyte(Call(mach, "motherboard_writebyte"), address, data)
        /\ Len(mach'.stdout) <= MaxOut
        /\ pre' = Unlogged(mach)
        /\ UNCHANGED <<nmis, resets>> /\ Idle

BusNext == BusRead \/ BusWrite

BusSpec == BusInit /\ [][BusNext]_vars

\* the address of a bus access is in the ROM region
InRom(a) == a \in 32768 .. 61439 \/ a \in 63488 .. 65535

InAcia(a) == a \in 61440 .. 63487

\* C11: a write to an address in 8000-EFFF or F800-FFFF, with any data,
\* changes nothing: no RAM byte, no ROM byte, no ACIA register, nothing of
\* the keyboard source or the terminal; in particular a write to 8000+k
\* leaves RAM[k] as it was.
C11_RomWritesDiscarded ==
    (op = "motherboard_writebyte" /\ InRom(mach.log[2][2])) =>
        /\ Unlogged(mach) = pre
        /\ mach.RAM = pre.RAM /\ mach.ROM = pre.ROM
        /\ <<mach.SR, mach.RDR, mach.TDR, mach.CR>> = <<pre.SR, pre.RDR, pre.TDR, pre.CR>>
        /\ \A a \in BusAddrs :
              motherboard_readbyte(mach, a).v = motherboard_readbyte(pre, a).v

\* FF was written to 0010 and then 41 to 8010: RAM[0010] still holds FF and
\* the ROM still holds its own byte at offset 0010
C11_Witness ==
    /\ op = "motherboard_writebyte"
    /\ mach.log[2] = <<"write", 32784, 65>>
    /\ Load(mach.RAM, 16, 0) = 255
    /\ Load(mach.ROM, 16, RomFill) = 129

\* the first and the last address of every page
PageEnds == {256 * p + o : p \in 0 .. 255, o \in {0, 255}}

\* the byte the region of address a holds in m
Decoded(m, a) ==
    IF a \in 0 .. 32767 THEN Load(m.RAM, a % 32768, 0)
    ELSE IF InAcia(a) THEN mc6850_readbyte(m, a).v
    ELSE Load(m.ROM, a % 32768, RomFill)

\* C12: every address is decoded to one region: a read of 0000-7FFF gives
\* RAM[addr & 7FFF], a read of 8000-EFFF or F800-FFFF gives ROM[addr & 7FFF],
\* an access to F000-F7FF goes to the ACIA and to nothing else, so the bytes
\* of the ROM file at offsets 7000-77FF are never read, and no read gives
\* the FF of the default case in the place of its region's byte; a write
\* to 0000-7FFF changes RAM[addr & 7FFF] and nothing else.
C12_BusDecoding ==
    /\ op = "motherboard_readbyte" =>
          /\ mach.log[Len(mach.log)][1] = "read"
          /\ mach.log[Len(mach.log)][3] = Decoded(pre, mach.log[Len(mach.log)][2])
          /\ InAcia(mach.log[Len(mach.log)][2]) =>
                /\ Unlogged(mach) = mc6850_readbyte(pre, mach.log[Len(mach.log)][2]).m
                /\ mach.log[Len(mach.log)][3] \in {mach.SR, mach.RDR}
                /\ mach.log[Len(mach.log)][3] #
                       Load(mach.ROM, mach.log[Len(mach.log)][2] % 32768, RomFill)
          /\ ~InAcia(mach.log[Len(mach.log)][2]) => Unlogged(mach) = pre
    /\ op = "motherboard_writebyte" =>
          /\ mach.ROM = pre.ROM
          /\ mach.log[2][2] \in 0 .. 32767 =>
                Unlogged(mach) =
                    [pre EXCEPT !.RAM = Store(pre.RAM, mach.log[2][2] % 32768,
                                              mach.log[2][3], 0)]
          /\ InAcia(mach.log[2][2]) =>
                Unlogged(mach) = mc6850_writebyte(pre, mach.log[2][2], mach.log[2][3])
    /\ op = "motherboard_reset" =>
          \A a \in PageEnds : motherboard_readbyte(mach, a).v = Decoded(mach, a)

\* a read of F000, behind which the ROM file holds 70, gave the status
\* register of the ACIA, and RAM and ROM hold bytes of their own
C12_Witness ==
    /\ op = "motherboard_readbyte"
    /\ mach.log[Len(mach.log)] = <<"read", 61440, 15>>
    /\ Load(mach.ROM, 28672, RomFill) = 112
    /\ Load(mach.RAM, 32767, 0) = 65


-----------------------------------------------------------------------------
(* mc6850.c and terminal.c: the ACIA accessed through the bus in any order, *)
(* the keyboard thread running beside it, with or without a data file      *)

\* the data files of the option -d: an empty one, one byte, two bytes
DataFiles == {<<>>, <<CTRL_J>>, <<66, CTRL_J>>}

\* F000 F001
AciaAddrs == {61440, 61441}

AciaInit ==
    /\ \E hasfile \in BOOLEAN, file \in DataFiles :
          /\ hasfile \/ file = <<>>
          /\ mach = Boot(BusRom, hasfile, file)
          /\ pre = Call(Loaded(BusRom, hasfile, file), "main")
    /\ nmis = 0 /\ resets = 0
    /\ tty = <<>> /\ typed = 0
    /\ dpc = "run" /\ batch = 0
    /\ tpc = "sleep" /\ tch = 0

AciaRead ==
    /\ dpc = "run"
    /\ \E address \in AciaAddrs :
          mach' = motherboard_readbyte(Call(mach, "motherboard_readbyte"), address).m
    /\ pre' = Unlogged(mach)
    /\ UNCHANGED <<nmis, resets>> /\ Idle

AciaWrite ==
    /\ dpc = "run"
    /\ \E address \in AciaAddrs :
          mach' = motherboard_writebyte(Call(mach, "motherboard_writebyte"), address, 65)
    /\ Len(mach'.stdout) <= MaxOut
    /\ pre' = Unlogged(mach)
    /\ UNCHANGED <<nmis, resets>> /\ Idle

AciaResets ==
    /\ dpc = "run"
    /\ nmis + resets < MaxCalls
    /\ mach' = motherboard_reset(Call(mach, "motherboard_reset"))
    /\ pre' = Unlogged(mach)
    /\ resets' = resets + 1
    /\ UNCHANGED nmis /\ Idle

\* a key is typed when the thread has taken the one before
AciaKey == tty = <<>> /\ Type

AciaNext ==
    AciaRead \/ AciaWrite \/ AciaResets \/ AciaKey \/ TGet \/ TWait \/ TValue \/ TReady

AciaSpec == AciaInit /\ [][AciaNext]_vars


\* the last access of the operation that gave m: <<"read" or "write", address, byte>>
Access(m) == m.log[Len(m.log)]

\* the step is the bus operation f, made with the keyboard thread at rest
BusStep(f) == Idle /\ mach'.log[1][2] = f

\* the keyboard source of terminal.c: the data file and the key of the thread
Source(m) == <<m.flag_datafile, m.datafile, m.datasize, m.stdin_value, m.stdin_has_data>>

\* the keyboard source has a byte to give
Ready(m) == IF m.flag_datafile # 0 THEN m.datafile # <<>> ELSE m.stdin_has_data # 0

\* the byte the keyboard source gives next, as the ACIA receives it
NextByte(m) ==
    IF (IF m.flag_datafile # 0 THEN Head(m.datafile) ELSE m.stdin_value) = 10
    THEN 13
    ELSE IF m.flag_datafile # 0 THEN Head(m.datafile) ELSE m.stdin_value

\* the keyboard source without the byte it gave
Taken(m) ==
    IF m.flag_datafile # 0
    THEN <<IF Len(m.datafile) = 1 THEN 0 ELSE m.flag_datafile,
           Tail(m.datafile), m.datasize - 1, m.stdin_value, m.stdin_has_data>>
    ELSE <<m.flag_datafile, m.datafile, m.datasize, m.stdin_value, 0>>

C13_Action ==
    /\ (BusStep("motherboard_readbyte") /\ Access(mach')[2] % 2 = 0) =>
          /\ Source(mach') = Source(mach)
          /\ mach'.SR = (IF Ready(mach) THEN BitOr(mach.SR, 1) ELSE mach.SR)
          /\ Access(mach')[3] = mach'.SR
          /\ <<mach'.RDR, mach'.TDR, mach'.CR>> = <<mach.RDR, mach.TDR, mach.CR>>
    /\ (BusStep("motherboard_readbyte") /\ Access(mach')[2] % 2 = 1) =>
          /\ Access(mach')[3] = mach'.RDR
          /\ mach'.SR = BitAnd(mach.SR, 254)
          /\ Ready(mach) =>
                /\ Source(mach') = Taken(mach)
                /\ mach'.RDR = NextByte(mach)
    /\ (BitAnd(mach.SR, 1) = 1 /\ BitAnd(mach'.SR, 1) = 0) =>
          \/ BusStep("motherboard_readbyte") /\ Access(mach')[2] % 2 = 1
          \/ BusStep("motherboard_reset") /\ Did(mach', "mc6850_reset")

\* C13: over any sequence of accesses to the ACIA, with the keyboard thread
\* running: a read of the status register (even address) leaves the keyboard
\* source as it is, sets bit 0 of SR when the source is ready and returns SR;
\* a read of the data register (odd address) returns RDR with bit 0 of SR
\* cleared, and when the source was ready RDR holds its next byte and the
\* source has lost exactly that byte; bit 0 of SR goes from 1 to 0 only in a
\* read of the data register or in a reset of the ACIA.
C13_AciaReads == [][C13_Action]_vars

\* the key typed was seen by a status read and then read: the data register
\* returned it, bit 0 of SR is clear again and the source is empty
C13_Witness ==
    /\ op = "motherboard_readbyte"
    /\ Access(mach) = <<"read", 61441, 65>>
    /\ BitAnd(pre.SR, 1) = 1 /\ BitAnd(mach.SR, 1) = 0
    /\ pre.stdin_has_data = 1 /\ mach.stdin_has_data = 0
    /\ mach.RDR = 65

C15_Action ==
    (BusStep("motherboard_readbyte") /\ Access(mach')[2] % 2 = 1 /\ ~Ready(mach)) =>
        /\ Access(mach')[3] = 0
        /\ mach'.RDR = 0
        /\ Source(mach') = Source(mach)
        /\ BitAnd(mach'.SR, 1) = 0
        /\ BitAnd(mach.SR, 1) = 0

\* C15: a read of the data register made when the keyboard source has no
\* byte (no key typed, or the data file used up) returns 0 at once, takes
\* nothing from the source, and bit 0 of SR is clear before and after it.
C15_EmptyDataRead == [][C15_Action]_vars

\* after a key was read, a second read of the data register found the
\* source empty and returned 0
C15_Witness ==
    /\ op = "motherboard_readbyte"
    /\ Access(mach) = <<"read", 61441, 0>>
    /\ pre.RDR = 65 /\ mach.RDR = 0
    /\ pre.stdin_has_data = 0 /\ mach.stdin_has_data = 0
    /\ mach.flag_datafile = 0


\* C16: a data file of N bytes, for every N >= 0, stands in for the keyboard
\* until it is used up: while the file is the source it is ready exactly
\* when bytes of it remain, and once no byte of it remains the source is the
\* keyboard again, so that a key the thread has delivered is ready to be read.
C16_FileThenKeyboard ==
    /\ mach.flag_datafile # 0 =>
          (check_keyboard_ready(mach) # 0 <=> mach.datafile # <<>>)
    /\ (mach.datafile = <<>> /\ mach.stdin_has_data # 0) =>
          /\ check_keyboard_ready(mach) # 0
          /\ mc6850_readbyte(mach, 61441).v = NextByte([mach EXCEPT !.flag_datafile = 0])


-----------------------------------------------------------------------------
(* The main loop and the keyboard thread, each taking its turn *)

\* the step is one of DRun: no other action of DNext leaves tty, tpc and dpc
\* alone with the main loop inside its batch
DRan ==
    /\ dpc = "run" /\ batch < BatchCycles
    /\ UNCHANGED <<tty, tpc, dpc>>
    /\ pre' = mach /\ batch' = batch + mach'.cycles

\* WF_vars of the main loop, DRun \/ DPoll \/ DAction \/ DClear, which has a
\* step to take in every state but those after exit()
MainFair == []<>(dpc = "exit") \/ []<><<DRan \/ DPoll \/ DAction \/ DClear>>_vars

\* the main loop goes on until exit(), and the thread takes its next step
DriverLive ==
    /\ DriverSpec
    /\ MainFair
    /\ WF_vars(TGet) /\ WF_vars(TWait) /\ WF_vars(TValue) /\ WF_vars(TReady)

\* the bytes the operation that gave m wrote to the transmit data register,
\* in the order of its writes
Sent(m) ==
    [i \in 1 .. Len(SelectSeq(m.log, LAMBDA e : e[1] = "write" /\ InAcia(e[2]) /\ e[2] % 2 = 1))
        |-> SelectSeq(m.log, LAMBDA e : e[1] = "write" /\ InAcia(e[2]) /\ e[2] % 2 = 1)[i][3]]

\* one key, not Ctrl-R nor Ctrl-X, was typed and the thread has taken it
OneKey == typed = 1 /\ tty = <<>> /\ tch \notin {CTRL_R, CTRL_X}

\* the one key as the ACIA receives it
KeyByte == IF tch = 10 THEN 13 ELSE tch

C14_Action ==
    IF DRan
    THEN mach'.stdout = mach.stdout \o Sent(mach')
    ELSE mach'.stdout \in {mach.stdout, mach.stdout \o ResetBanner, mach.stdout \o ExitBanner}

\* C14: each step of the CPU appends to the terminal the bytes it wrote to
\* the transmit data register (odd address in F000-F7FF), each once,
\* unchanged and in order, and nothing else; no other step appends anything
\* but the banners of the main loop and of the exit hook.  With the echo
\* program and one key typed the terminal receives that byte and no other:
\* it holds nothing or that byte at any time, it holds the byte in the end,
\* and from then on bit 0 of SR is clear and the keyboard has nothing pending.
C14_TransmitOnce ==
    /\ [][C14_Action]_vars
    /\ [](OneKey => /\ mach.stdout \in {<<>>, <<KeyByte>>}
                    /\ mach.stdout # <<>> =>
                          BitAnd(mach.SR, 1) = 0 /\ check_keyboard_ready(mach) = 0)
    /\ (typed = 1 /\ tty # <<>> /\ Head(tty) \notin {CTRL_R, CTRL_X})
          ~> (typed = 2 \/ (OneKey /\ mach.stdout = <<KeyByte>>))

\* the echo program has read Ctrl-J and sent it to the terminal as 0D
C14_Witness ==
    /\ OneKey /\ tch = CTRL_J
    /\ op = "cpu_execute"
    /\ Sent(mach) = <<13>>
    /\ mach.stdout = <<13>>
    /\ BitAnd(mach.SR, 1) = 0


-----------------------------------------------------------------------------
(* cpu6502.c: the stack.  A program sets SP and the flags, leaves two bytes *)
(* on the stack and runs one stack instruction; interrupts arrive at any   *)
(* step                                                                    *)

\* PHA PHP PLA PLP JSR RTS BRK RTI, and NOP
StackOps == {72, 8, 104, 40, 32, 96, 0, 64, 234}

\* stack pointers at both ends of page one and inside it
StackSPs == {0, 1, 2, 128, 254, 255}

\* status bytes: none, all, bits 4 and 5 alone, all but bits 4 and 5, N and D
StackBytes == {0, 255, 48, 207, 136}

\* F800 LDX #sp; TXS; LDA #v; PHA; PHA; PLP
\* F808 the opcode b, followed by EA F8 (NOP; SED, or the target F8EA of JSR)
\* F80B JMP $F80B ; F820 (NMI) RTI ; F830 (IRQ, BRK) JMP $F830 ; F8EA RTS
StackRom(sp, v, b) ==
    At(63488, <<162, sp, 154, 169, v, 72, 72, 40, b, 234, 248, 76, 11, 248>>)
    @@ At(63520, <<64>>)
    @@ At(63536, <<76, 48, 248>>)
    @@ At(63722, <<96>>)
    @@ Vectors(63520, 63488, 63536)

StackInit ==
    /\ \E sp \in StackSPs, v \in StackBytes, b \in StackOps :
          /\ mach = Boot(StackRom(sp, v, b), FALSE, <<>>)
          /\ pre = Call(Loaded(StackRom(sp, v, b), FALSE, <<>>), "main")
    /\ nmis = 0 /\ resets = 0
    /\ tty = <<>> /\ typed = 0
    /\ dpc = "run" /\ batch = 0
    /\ tpc = "sleep" /\ tch = 0

StackSpec == StackInit /\ [][Step \/ OpIrq \/ Nmi]_vars


\* the accesses to RAM of the operation that gave m, in order
RamAccesses(m) ==
    SelectSeq(m.log, LAMBDA e : e[1] \in {"read", "write"} /\ e[2] < 32768)

\* the last operation was a step that began with PC in the ROM
RomStep == op = "cpu_execute" /\ pre.PC >= 32768

\* the opcode the step executed: its first fetch, after the interrupt entry
\* when there was one, which takes log[2] to log[7]
Fetched == IF IrqStep THEN mach.log[8][3] ELSE mach.log[2][3]

\* the stack accesses of each instruction
Shape(opcode) ==
    CASE opcode \in {72, 8} -> <<"write">>
      [] opcode \in {104, 40} -> <<"read">>
      [] opcode = 32 -> <<"write", "write">>
      [] opcode = 96 -> <<"read", "read">>
      [] opcode = 0 -> <<"write", "write", "write">>
      [] opcode = 64 -> <<"read", "read", "read">>
      [] OTHER -> <<>>

\* the stack pointer after the accesses acc made from sp on, each of them at
\* 0100 | SP (a push at SP, then SP - 1; a pop SP + 1, then at SP), the
\* arithmetic modulo 256; 256 when an access is somewhere else
RECURSIVE StackWalk(_, _)
StackWalk(acc, sp) ==
    IF acc = <<>> THEN sp
    ELSE IF Head(acc)[1] = "write"
         THEN IF Head(acc)[2] = 256 + sp
              THEN StackWalk(Tail(acc), (sp + 255) % 256)
              ELSE 256
         ELSE IF Head(acc)[2] = 256 + ((sp + 1) % 256)
              THEN StackWalk(Tail(acc), (sp + 1) % 256)
              ELSE 256

\* C17: after every operation SP is in 00..FF.  A step that begins in the
\* ROM, and cpu_nmi, access the RAM only as their stack accesses: three
\* pushes for an interrupt entry, then those of the instruction (PHA, PHP
\* one push; PLA, PLP one pop; JSR two pushes; RTS two pops; BRK three
\* pushes; RTI three pops), each at 0100 | SP in 0100..01FF with SP counted
\* modulo 256, and SP ends where they leave it (unless TXS or a reset set
\* it).  No byte of page zero or page two is ever written.
C17_StackInPageOne ==
    /\ mach.SP \in 0 .. 255
    /\ DOMAIN mach.RAM \subseteq 256 .. 511
    /\ op = "cpu_nmi" =>
          /\ [i \in 1 .. Len(RamAccesses(mach)) |-> RamAccesses(mach)[i][1]]
                 = <<"write", "write", "write">>
          /\ mach.SP = StackWalk(RamAccesses(mach), pre.SP)
    /\ RomStep =>
          /\ \A i \in 1 .. Len(RamAccesses(mach)) :
                RamAccesses(mach)[i][2] \in 256 .. 511
          /\ [i \in 1 .. Len(RamAccesses(mach)) |-> RamAccesses(mach)[i][1]]
                 = (IF IrqStep THEN <<"write", "write", "write">> ELSE <<>>)
                   \o Shape(Fetched)
          /\ StackWalk(RamAccesses(mach), pre.SP) # 256
          /\ (Fetched # 154 /\ ~Did(mach, "cpu_reset")) =>
                mach.SP = StackWalk(RamAccesses(mach), pre.SP)

\* PLP at SP = FF read 0100, where the PHA before it, made at SP = 00, had
\* written CF, and left SP = 00
C17_Witness ==
    /\ RomStep /\ ~IrqStep /\ Fetched = 40
    /\ pre.SP = 255 /\ mach.SP = 0
    /\ RamAccesses(mach) = << <<"read", 256, 207>> >>
    /\ DOMAIN mach.RAM = {256, 257}

\* the flags of m as a status byte, without bits 4 and 5
Flags(m) ==
    (IF m.N_Flag # 0 THEN 128 ELSE 0) + (IF m.V_Flag # 0 THEN 64 ELSE 0)
    + (IF m.D_Flag # 0 THEN 8 ELSE 0) + (IF m.I_Flag # 0 THEN 4 ELSE 0)
    + (IF m.Z_Flag # 0 THEN 2 ELSE 0) + (IF m.C_Flag # 0 THEN 1 ELSE 0)

\* C18: the status byte pushed by PHP and by BRK is the flags with bits 4
\* and 5 set (after BRK it is the byte at 0100 | (SP - 2), SP taken before
\* the BRK); the one pushed by an IRQ or NMI entry is the flags with bit 5
\* set and bit 4 clear.  After PLP and after RTI the flags N, V, D, I, Z, C
\* are those bits of the byte popped, whatever its bits 4 and 5.
C18_StatusByte ==
    /\ (RomStep /\ ~IrqStep /\ Fetched = 8) =>
          RamAccesses(mach)[1][3] = Flags(pre) + 48
    /\ (RomStep /\ ~IrqStep /\ Fetched = 0) =>
          /\ RamAccesses(mach)[3] = <<"write", 256 + ((pre.SP + 254) % 256), Flags(pre) + 48>>
          /\ Load(mach.RAM, 256 + ((pre.SP + 254) % 256), 0) = Flags(pre) + 48
    /\ (op = "cpu_nmi" \/ (RomStep /\ IrqStep)) =>
          RamAccesses(mach)[3] = <<"write", 256 + ((pre.SP + 254) % 256), Flags(pre) + 32>>
    /\ (RomStep /\ ~IrqStep /\ Fetched \in {40, 64}) =>
          Flags(mach) = BitAnd(RamAccesses(mach)[1][3], 207)

\* in the program with v = 00 and b = BRK, the BRK pushed 30 (no flag set,
\* bits 4 and 5), and the NMI entry after it pushed 24 (I set by the BRK,
\* bit 5, bit 4 clear)
C18_Witness ==
    /\ op = "cpu_nmi"
    /\ Load(mach.ROM, 30724, RomFill) = 0 /\ Load(mach.ROM, 30728, RomFill) = 0
    /\ RamAccesses(mach)[3][3] = 36
    /\ \E a \in 256 .. 511 : Load(mach.RAM, a, 0) = 48


-----------------------------------------------------------------------------
(* cpu6502.c: ADC and SBC, run on every pair of operands *)

\* the program code at F800, followed by a JMP to itself; all vectors at F800
ArithRom(code) ==
    At(63488, code \o <<76, Len(code), 248>>) @@ Vectors(63488, 63488, 63488)

\* the bytes 00..99 in binary coded decimal
BcdBytes == {16 * h + l : h \in 0 .. 9, l \in 0 .. 9}

\* F800 SED; LDA #a; SEC or CLC; F804 ADC #b; F806 JMP $F806
AdcInit ==
    /\ \E a \in BcdBytes, b \in BcdBytes, c \in {56, 24} :
          /\ mach = Boot(ArithRom(<<248, 169, a, c, 105, b>>), FALSE, <<>>)
          /\ pre = Call(Loaded(ArithRom(<<248, 169, a, c, 105, b>>), FALSE, <<>>), "main")
    /\ nmis = 0 /\ resets = 0
    /\ tty = <<>> /\ typed = 0
    /\ dpc = "run" /\ batch = 0
    /\ tpc = "sleep" /\ tch = 0

AdcSpec == AdcInit /\ [][Step]_vars

\* the number a BCD byte stands for, and the BCD byte of a number below 100
FromBcd(x) == 10 * (x \div 16) + (x % 16)

ToBcd(n) == 16 * (n \div 10) + (n % 10)

\* the last operation was the step of the instruction at F804
AtF804 == op = "cpu_execute" /\ pre.PC = 63492

\* its operand, read at F805, and the carry it began with
Operand2 == mach.log[3][3]

CarryIn == IF pre.C_Flag # 0 THEN 1 ELSE 0

\* C19: with D set, for all BCD bytes a and b of 00..99 and either carry,
\* ADC #b with a in A leaves in A the BCD byte of (a + b + C) mod 100 and
\* the carry set exactly when a + b + C >= 100, D still set; SED; LDA #$15;
\* CLC; ADC #$27 leaves A = 42, C = 0, D = 1.
C19_DecimalAdc ==
    AtF804 =>
        /\ mach.log[2] = <<"read", 63492, 105>> /\ mach.log[3][2] = 63493
        /\ pre.A \in BcdBytes /\ Operand2 \in BcdBytes
        /\ pre.D_Flag # 0 /\ mach.D_Flag # 0
        /\ mach.A = ToBcd((FromBcd(pre.A) + FromBcd(Operand2) + CarryIn) % 100)
        /\ (mach.C_Flag # 0) = (FromBcd(pre.A) + FromBcd(Operand2) + CarryIn >= 100)
        /\ (pre.A = 21 /\ Operand2 = 39 /\ CarryIn = 0) =>
               mach.A = 66 /\ mach.C_Flag = 0 /\ mach.D_Flag = 1

\* 99 + 99 + 1 = 199: A = 99 and the carry is set
C19_Witness ==
    /\ AtF804 /\ pre.D_Flag # 0
    /\ pre.A = 153 /\ Operand2 = 153 /\ CarryIn = 1
    /\ mach.A = 153 /\ mach.C_Flag # 0


\* F800 LDA #a; SEC; F803 SBC #b; PHP; PHA
\* F807 LDA #a; SEC; F80A ADC #(b ^ FF); F80C JMP $F80C
SbcInit ==
    /\ \E a \in 0 .. 255, b \in 0 .. 255 :
          /\ mach = Boot(ArithRom(<<169, a, 56, 233, b, 8, 72, 169, a, 56, 105, 255 - b>>),
                         FALSE, <<>>)
          /\ pre = Call(Loaded(ArithRom(<<169, a, 56, 233, b, 8, 72, 169, a, 56, 105, 255 - b>>),
                               FALSE, <<>>), "main")
    /\ nmis = 0 /\ resets = 0
    /\ tty = <<>> /\ typed = 0
    /\ dpc = "run" /\ batch = 0
    /\ tpc = "sleep" /\ tch = 0

SbcSpec == SbcInit /\ [][Step]_vars

\* the last operation was the step of the SBC at F803, or of the ADC at F80A
AtF803 == op = "cpu_execute" /\ pre.PC = 63491

AtF80A == op = "cpu_execute" /\ pre.PC = 63498

\* C20: with D clear, for all a and b of 0..255, LDA #a; SEC; SBC #b leaves
\* A = (a - b) mod 256, C set exactly when a >= b, Z set exactly when
\* a = b, and N equal to bit 7 of A; and ADC of the inverted operand, from
\* the same A and carry, leaves the same A and the same flags as the SBC.
C20_BinarySbc ==
    /\ AtF803 =>
          /\ mach.log[2] = <<"read", 63491, 233>> /\ mach.log[3][2] = 63492
          /\ pre.D_Flag = 0 /\ pre.C_Flag # 0
          /\ mach.A = (pre.A - Operand2 + 256) % 256
          /\ (mach.C_Flag # 0) = (pre.A >= Operand2)
          /\ (mach.Z_Flag # 0) = (pre.A = Operand2)
          /\ (mach.N_Flag # 0) = (mach.A >= 128)
    /\ AtF80A =>
          /\ mach.log[2] = <<"read", 63498, 105>>
          /\ pre.A = Load(mach.ROM, 30721, RomFill)
          /\ Operand2 = 255 - Load(mach.ROM, 30724, RomFill)
          /\ pre.D_Flag = 0 /\ pre.C_Flag # 0
          /\ mach.A = Load(mach.RAM, 508, 0)
          /\ Flags(mach) + 48 = Load(mach.RAM, 509, 0)

\* 00 - 01 with the carry set: A = FF, C clear, N set, Z clear, and the ADC
\* of FE gave the same
C20_Witness ==
    /\ AtF80A
    /\ pre.A = 0 /\ Operand2 = 254
    /\ mach.A = 255 /\ Load(mach.RAM, 508, 0) = 255
    /\ mach.C_Flag = 0 /\ mach.N_Flag # 0 /\ mach.Z_Flag = 0


-----------------------------------------------------------------------------
(* cpu6502.c: pushes followed by as many pulls *)

\* the numbers of pushes of the loop: 3, and 256 written as 00
LifoCounts == {3, 0}

\* the pairs of bytes pushed first
LifoBytes == {<<0, 255>>, <<255, 1>>, <<90, 90>>}

\* F800 LDX #sp; TXS; LDA #v1; PHA; LDA #v2; PHA; F809 PLA; F80A PLA
\* F80B LDX #n; F80D TXA; PHA; DEX; BNE $F80D
\* F812 LDX #n; F814 PLA; DEX; BNE $F814; F818 JMP $F818
LifoRom(sp, v1, v2, n) ==
    ArithRom(<<162, sp, 154, 169, v1, 72, 169, v2, 72, 104, 104,
               162, n, 138, 72, 202, 208, 251,
               162, n, 104, 202, 208, 252>>)

LifoInit ==
    /\ \E sp \in StackSPs, v \in LifoBytes, n \in LifoCounts :
          /\ mach = Boot(LifoRom(sp, v[1], v[2], n), FALSE, <<>>)
          /\ pre = Call(Loaded(LifoRom(sp, v[1], v[2], n), FALSE, <<>>), "main")
    /\ nmis = 0 /\ resets = 0
    /\ tty = <<>> /\ typed = 0
    /\ dpc = "run" /\ batch = 0
    /\ tpc = "sleep" /\ tch = 0

LifoSpec == LifoInit /\ [][Step]_vars

\* the byte of the program at address a of F800..FFFF
Prog(a) == Load(mach.ROM, a - 32768, RomFill)

\* the last operation was the step of the instruction at address a
StepAt(a) == op = "cpu_execute" /\ pre.PC = a

\* C21: for every starting SP, at the ends of page one too, and bytes v1,
\* v2: after PHA v1; PHA v2 the first PLA leaves A = v2 and the second
\* A = v1 with SP back where it began.  n pushes of the bytes n, n-1, .. 1
\* followed by n pulls return 1, 2, .. n, the reverse order, for n = 3 and
\* n = 256 (the bytes 0, 255, .. 1), and SP is back where it began.
C21_StackLifo ==
    /\ StepAt(63497) => mach.A = Prog(63495) /\ mach.SP = (Prog(63489) + 255) % 256
    /\ StepAt(63498) => mach.A = Prog(63492) /\ mach.SP = Prog(63489)
    /\ StepAt(63508) =>
          /\ mach.log[2] = <<"read", 63508, 104>>
          /\ mach.A = (Prog(63507) + 256 - pre.X + 1) % 256
    /\ mach.PC = 63512 => mach.SP = Prog(63489)

\* the last of 256 pulls, begun at SP = FF: it returned 00, the first byte
\* pushed, from 01FF, and SP is FF again
C21_Witness ==
    /\ StepAt(63508) /\ Prog(63507) = 0 /\ Prog(63489) = 255
    /\ pre.X = 1 /\ mach.A = 0
    /\ mach.log[3] = <<"read", 511, 0>>
    /\ mach.SP = 255
    /\ \A a \in 256 .. 510 : Load(mach.RAM, a, 0) = a - 255


-----------------------------------------------------------------------------
(* cpu6502.c: the conditional branches, at the middle and the end of a     *)
(* page and at the end of the address space, with every displacement       *)

\* BPL BMI BVC BVS BCC BCS BNE BEQ
BranchOps == {16, 48, 80, 112, 144, 176, 208, 240}

\* F97E, F9FD (the operand is the last byte but one of the page), F9FE (the
\* operand is the last byte of the page), FFF8
BranchPlaces == {63870, 63997, 63998, 65528}

\* no flag set, and N, V, Z, C set
BranchFlags == {0, 195}

\* F800 LDA #v; PHA; PLP; JMP p ; F810 (IRQ, BRK) JMP $F810 ; p: b d
BranchRom(v, p, b, d) ==
    At(63488, <<169, v, 72, 40, 76, p % 256, p \div 256>>)
    @@ At(63504, <<76, 16, 248>>)
    @@ At(p, <<b, d>>)
    @@ Vectors(63504, 63488, 63504)

BranchInit ==
    /\ \E v \in BranchFlags, p \in BranchPlaces, b \in BranchOps, d \in 0 .. 255 :
          /\ mach = Boot(BranchRom(v, p, b, d), FALSE, <<>>)
          /\ pre = Call(Loaded(BranchRom(v, p, b, d), FALSE, <<>>), "main")
    /\ nmis = 0 /\ resets = 0
    /\ tty = <<>> /\ typed = 0
    /\ dpc = "run" /\ batch = 0
    /\ tpc = "sleep" /\ tch = 0

BranchSpec == BranchInit /\ [][Step]_vars

\* the condition of branch opcode o in the flags of m
BranchTaken(o, m) ==
    CASE o = 16 -> m.N_Flag = 0
      [] o = 48 -> m.N_Flag # 0
      [] o = 80 -> m.V_Flag = 0
      [] o = 112 -> m.V_Flag # 0
      [] o = 144 -> m.C_Flag = 0
      [] o = 176 -> m.C_Flag # 0
      [] o = 208 -> m.Z_Flag = 0
      [] o = 240 -> m.Z_Flag # 0

\* the address after the operand of the branch at pc, and the address d
\* leads to from there, d taken as a signed byte
PostFetch(pc) == (pc + 2) % 65536

Target(pc, d) == (PostFetch(pc) + (IF d >= 128 THEN d - 256 ELSE d) + 65536) % 65536

\* the last operation was a step, without interrupt entry, of a branch
BranchStep ==
    /\ op = "cpu_execute" /\ ~IrqStep
    /\ mach.log[2][1] = "read" /\ mach.log[2][2] = pre.PC
    /\ mach.log[2][3] \in BranchOps

\* C22: for each of the eight branches and every displacement, the step
\* returns 2 and leaves PC after the operand when the branch is not taken;
\* when it is taken PC is the address after the operand plus the signed
\* displacement modulo 2^16, and the step returns 3 when that address has
\* the high byte of the address after the operand, and 4 when it has not.
C22_BranchCycles ==
    BranchStep =>
        /\ mach.log[3][1] = "read" /\ mach.log[3][2] = (pre.PC + 1) % 65536
        /\ IF BranchTaken(mach.log[2][3], pre)
           THEN /\ mach.PC = Target(pre.PC, mach.log[3][3])
                /\ mach.cycles =
                       (IF Target(pre.PC, mach.log[3][3]) \div 256 = PostFetch(pre.PC) \div 256
                        THEN 3 ELSE 4)
           ELSE /\ mach.PC = PostFetch(pre.PC)
                /\ mach.cycles = 2

\* BNE at FFF8 with the displacement 7F and Z clear went to 0079 in 4 cycles
C22_Witness ==
    /\ BranchStep /\ pre.PC = 65528
    /\ mach.log[2][3] = 208 /\ mach.log[3][3] = 127 /\ pre.Z_Flag = 0
    /\ mach.PC = 121 /\ mach.cycles = 4


-----------------------------------------------------------------------------
(* cpu6502.c: the indexed addressing modes, with a base at the end of a    *)
(* page and of the address space and a pointer at the end of page zero     *)

\* read instructions through absolute,X / absolute,Y / (indirect),Y
ReadAbsX == {29, 61, 93, 125, 188, 189, 221, 253}

ReadAbsY == {25, 57, 89, 121, 185, 190, 217, 249}

ReadIndY == {17, 49, 81, 113, 177, 209, 241}

\* STA absolute,Y / STA absolute,X and STA (indirect),Y
StoreAbs == {153, 157}

StoreIndY == {145}

\* ASL ROL LSR ROR DEC INC absolute,X
RmwAbsX == {30, 62, 94, 126, 222, 254}

\* zero-page,X / zero-page,Y / (indirect,X)
ZeroX == {21, 53, 85, 117, 148, 149, 180, 181, 213, 245, 22, 54, 86, 118, 214, 246}

ZeroY == {150, 182}

IndX == {1, 33, 65, 97, 129, 161, 193, 225}

IndexOps ==
    ReadAbsX \cup ReadAbsY \cup ReadIndY \cup StoreAbs \cup StoreIndY
    \cup RmwAbsX \cup ZeroX \cup ZeroY \cup IndX

\* the bases 02FF, 80FF, FFFF as <<low, high>>
IndexBases == {<<255, 2>>, <<255, 128>>, <<255, 255>>}

\* the values of X and Y
IndexValues == {0, 1, 255}

\* the zero-page places of the pointer: 10/11 and FF/00
IndexPointers == {16, 255}

\* F800 LDA #lo; STA z; LDA #hi; STA z+1 (in page zero); LDX #i; LDY #i
\* F80C o operand; F80F JMP $F80F
\* the operand is lo hi for the absolute modes, k NOP for the others
IndexRom(z, lo, hi, i, o, k) ==
    ArithRom(<<169, lo, 133, z, 169, hi, 133, (z + 1) % 256, 162, i, 160, i>>
             \o (IF o \in ReadAbsX \cup ReadAbsY \cup StoreAbs \cup RmwAbsX
                 THEN <<o, lo, hi>> ELSE <<o, k, 234>>))

IndexInit ==
    /\ \E z \in IndexPointers, b \in IndexBases, i \in IndexValues, o \in IndexOps :
       \E k \in {z, (z + 256 - i) % 256} :
          /\ mach = Boot(IndexRom(z, b[1], b[2], i, o, k), FALSE, <<>>)
          /\ pre = Call(Loaded(IndexRom(z, b[1], b[2], i, o, k), FALSE, <<>>), "main")
    /\ nmis = 0 /\ resets = 0
    /\ tty = <<>> /\ typed = 0
    /\ dpc = "run" /\ batch = 0
    /\ tpc = "sleep" /\ tch = 0

IndexSpec == IndexInit /\ [][Step]_vars

\* the last operation was the step of the indexed instruction, its opcode
\* and the first byte of its operand
IndexStep == StepAt(63500) /\ ~IrqStep

IndexOp == Prog(63500)

IndexOperand == Prog(63501)

\* the 16-bit word held before the step in page zero at p and at the byte
\* after p within page zero
ZeroWord(p) == Load(pre.RAM, p, 0) + 256 * Load(pre.RAM, (p + 1) % 256, 0)

\* the base address of the instruction and the index register it adds
IndexBase ==
    IF IndexOp \in ReadIndY \cup StoreIndY
    THEN ZeroWord(IndexOperand)
    ELSE Prog(63501) + 256 * Prog(63502)

IndexReg == IF IndexOp \in ReadAbsX \cup {157} \cup RmwAbsX THEN pre.X ELSE pre.Y

Crossed == ((IndexBase + IndexReg) % 65536) \div 256 # IndexBase \div 256

\* C23: a read through absolute,X or absolute,Y costs 4 cycles and through
\* (indirect),Y 5, plus exactly one when base + index has another high byte
\* than the base; STA absolute,X and absolute,Y cost 5, STA (indirect),Y 6
\* and the read-modify-write instructions through absolute,X 7, whether a
\* page is crossed or not.
C23_PageCrossPenalty ==
    IndexStep =>
        /\ IndexOp \in ReadAbsX \cup ReadAbsY =>
              mach.cycles = 4 + (IF Crossed THEN 1 ELSE 0)
        /\ IndexOp \in ReadIndY =>
              mach.cycles = 5 + (IF Crossed THEN 1 ELSE 0)
        /\ IndexOp \in StoreAbs => mach.cycles = 5
        /\ IndexOp \in StoreIndY => mach.cycles = 6
        /\ IndexOp \in RmwAbsX => mach.cycles = 7
        /\ IndexOp = 189 /\ IndexBase = 33023 =>
              /\ pre.X = 1 => mach.cycles = 5
              /\ pre.X = 0 => mach.cycles = 4

\* LDA $80FF,X with X = 1 read 8100 and took 5 cycles
C23_Witness ==
    /\ IndexStep /\ IndexOp = 189 /\ IndexBase = 33023 /\ pre.X = 1
    /\ mach.log[5][1] = "read" /\ mach.log[5][2] = 33024
    /\ mach.cycles = 5


\* the addresses of the bus accesses of the last step from the n-th on
AccessesFrom(n) == {mach.log[j][2] : j \in n .. Len(mach.log)}

\* C25: zero-page,X and zero-page,Y access (operand + index) & 0xFF and no
\* other address; (indirect,X) reads its pointer at (operand + X) & 0xFF and
\* at the byte after it within page zero; (indirect),Y reads its base at the
\* operand and at (operand + 1) & 0xFF, so that with the operand FF the
\* high byte comes from 0000, and adds Y to it.
C25_ZeroPageWrap ==
    IndexStep =>
        /\ IndexOp \in ZeroX =>
              /\ Len(mach.log) >= 4
              /\ AccessesFrom(4) = {(IndexOperand + pre.X) % 256}
        /\ IndexOp \in ZeroY =>
              /\ Len(mach.log) >= 4
              /\ AccessesFrom(4) = {(IndexOperand + pre.Y) % 256}
        /\ IndexOp \in IndX =>
              /\ mach.log[4] = <<"read", (IndexOperand + pre.X) % 256,
                                 Load(pre.RAM, (IndexOperand + pre.X) % 256, 0)>>
              /\ mach.log[5] = <<"read", (IndexOperand + pre.X + 1) % 256,
                                 Load(pre.RAM, (IndexOperand + pre.X + 1) % 256, 0)>>
              /\ AccessesFrom(6) = {ZeroWord((IndexOperand + pre.X) % 256)}
        /\ IndexOp \in ReadIndY \cup StoreIndY =>
              /\ mach.log[4] = <<"read", IndexOperand, Load(pre.RAM, IndexOperand, 0)>>
              /\ mach.log[5] = <<"read", (IndexOperand + 1) % 256,
                                 Load(pre.RAM, (IndexOperand + 1) % 256, 0)>>
              /\ AccessesFrom(6) = {(ZeroWord(IndexOperand) + pre.Y) % 65536}

\* LDA ($FF),Y with FF in 00FF, 80 in 0000 and nothing in 0100 read its
\* base 80FF from 00FF and 0000, and with Y = 1 its operand from 8100
C25_Witness ==
    /\ IndexStep /\ IndexOp = 177 /\ IndexOperand = 255 /\ pre.Y = 1
    /\ Load(pre.RAM, 256, 0) = 0
    /\ mach.log[4] = <<"read", 255, 255>>
    /\ mach.log[5] = <<"read", 0, 128>>
    /\ mach.log[6][2] = 33024



-----------------------------------------------------------------------------
(* cpu6502.c: JSR and RTS, with the instruction in RAM and in ROM, across  *)
(* the end of a page and of the address space                              *)

\* the addresses of the JSR: 0000, 02FE, F9FD, FFFF
JsrPlaces == {0, 766, 63997, 65535}

\* the addresses of the subroutine, an RTS: 0006, F9EA
JsrTargets == {6, 63978}

\* the byte b at address a when a is an address of the ROM
RomByte(a, b) == IF a >= 32768 THEN At(a, <<b>>) ELSE At(0, <<>>)

\* F800 LDX #sp; TXS; LDA #$20; STA p; LDA #<t; STA p+1; LDA #>t; STA p+2
\* F812 LDA #$60; STA t; F817 JMP p; F820 (NMI, IRQ, BRK) JMP $F820
\* and the same bytes at p, p+1, p+2 and t where those are in the ROM
JsrRom(sp, p, t) ==
    RomByte(p, 32) @@ RomByte((p + 1) % 65536, t % 256)
    @@ RomByte((p + 2) % 65536, t \div 256) @@ RomByte(t, 96)
    @@ At(63488, <<162, sp, 154,
                   169, 32, 141, p % 256, p \div 256,
                   169, t % 256, 141, (p + 1) % 256, ((p + 1) % 65536) \div 256,
                   169, t \div 256, 141, (p + 2) % 256, ((p + 2) % 65536) \div 256,
                   169, 96, 141, t % 256, t \div 256,
                   76, p % 256, p \div 256>>)
    @@ At(63520, <<76, 32, 248>>)
    @@ Vectors(63520, 63488, 63520)

JsrInit ==
    /\ \E sp \in StackSPs, p \in JsrPlaces, t \in JsrTargets :
          /\ mach = Boot(JsrRom(sp, p, t), FALSE, <<>>)
          /\ pre = Call(Loaded(JsrRom(sp, p, t), FALSE, <<>>), "main")
    /\ nmis = 0 /\ resets = 0
    /\ tty = <<>> /\ typed = 0
    /\ dpc = "run" /\ batch = 0
    /\ tpc = "sleep" /\ tch = 0

JsrSpec == JsrInit /\ [][Step]_vars

\* the address the program jumps to, where the JSR is, and the stack
\* pointer it set before
JsrPlace == Prog(63512) + 256 * Prog(63513)

JsrSP == Prog(63489)

\* the last operation was the step of the JSR, and of the RTS it called
JsrStep == StepAt(JsrPlace) /\ ~IrqStep /\ mach.log[2] = <<"read", JsrPlace, 32>>

RtsStep ==
    /\ op = "cpu_execute" /\ ~IrqStep /\ preop = "cpu_execute"
    /\ mach.log[2] = <<"read", pre.PC, 96>>
    /\ pre.PC = Prog(63509) + 256 * Prog(63510)

\* C24: JSR at p writes the high byte of p + 2 at 0100 | SP and the low byte
\* at 0100 | (SP - 1), leaves SP two lower, modulo 256, and PC at its
\* operand; the RTS that follows sets PC to p + 3 modulo 2^16 and SP to its
\* value before the JSR.  JSR $0006 at 0000 stacks 00 and 02, and the RTS
\* gives PC = 0003.
C24_JsrRts ==
    /\ JsrStep =>
          /\ mach.log[5] = <<"write", 256 + pre.SP, ((pre.PC + 2) % 65536) \div 256>>
          /\ mach.log[6] = <<"write", 256 + ((pre.SP + 255) % 256), (pre.PC + 2) % 256>>
          /\ Len(mach.log) = 6
          /\ mach.SP = (pre.SP + 254) % 256
          /\ pre.SP = JsrSP
          /\ mach.PC = mach.log[3][3] + 256 * mach.log[4][3]
          /\ mach.log[3][2] = (pre.PC + 1) % 65536
          /\ mach.log[4][2] = (pre.PC + 2) % 65536
          /\ pre.PC = 0 /\ mach.PC = 6 =>
                /\ mach.log[5][3] = 0 /\ mach.log[6][3] = 2
    /\ RtsStep =>
          /\ mach.PC = (JsrPlace + 3) % 65536
          /\ mach.SP = JsrSP
          /\ JsrPlace = 0 => mach.PC = 3

\* the RTS at 0006 after JSR $0006 at 0000 with SP = 00: the return address
\* 0002 lay at 0100 and 01FF, and PC is 0003 with SP 00 again
C24_Witness ==
    /\ RtsStep /\ JsrPlace = 0 /\ JsrSP = 0 /\ pre.PC = 6
    /\ pre.SP = 254
    /\ mach.log[3] = <<"read", 511, 2>>
    /\ mach.log[4] = <<"read", 256, 0>>
    /\ mach.PC = 3 /\ mach.SP = 0



-----------------------------------------------------------------------------
(* cpu6502.c: interrupt entry, BRK and RTI, with handlers that return at   *)
(* once                                                                    *)

\* BRK and NOP
RtiOps == {0, 234}

\* F800 LDX #sp; TXS; LDA #v; PHA; PLP; F807 b; NOP; F809 JMP $F809
\* F820 (IRQ, BRK) RTI ; F830 (NMI) RTI
RtiRom(sp, v, b) ==
    At(63488, <<162, sp, 154, 169, v, 72, 40, b, 234, 76, 9, 248>>)
    @@ At(63520, <<64>>)
    @@ At(63536, <<64>>)
    @@ Vectors(63536, 63488, 63520)

RtiInit ==
    /\ \E sp \in StackSPs, v \in StackBytes, b \in RtiOps :
          /\ mach = Boot(RtiRom(sp, v, b), FALSE, <<>>)
          /\ pre = Call(Loaded(RtiRom(sp, v, b), FALSE, <<>>), "main")
    /\ nmis = 0 /\ resets = 0
    /\ tty = <<>> /\ typed = 0
    /\ dpc = "run" /\ batch = 0
    /\ tpc = "sleep" /\ tch = 0

RtiSpec == RtiInit /\ [][Step \/ OpIrq \/ Nmi]_vars

\* entries k, k + 1, k + 2 of the log l are the pushes of the address pc and
\* of the status byte p from the stack pointer s on
EntryWrites(l, k, pc, s, p) ==
    /\ l[k] = <<"write", 256 + s, pc \div 256>>
    /\ l[k + 1] = <<"write", 256 + ((s + 255) % 256), pc % 256>>
    /\ l[k + 2] = <<"write", 256 + ((s + 254) % 256), p>>

\* the last operation was the step of a BRK, without interrupt entry
BrkStep ==
    op = "cpu_execute" /\ ~IrqStep /\ mach.log[2] = <<"read", pre.PC, 0>>

\* the last operation was the step of the RTI of a handler, and the one
\* before it the NMI entry or the BRK that led to the handler
RtiAfterEntry ==
    /\ op = "cpu_execute" /\ ~IrqStep /\ mach.log[2] = <<"read", pre.PC, 64>>
    /\ \/ preop = "cpu_nmi"
       \/ preop = "cpu_execute" /\ pre.log[2][1] = "read" /\ pre.log[2][3] = 0

\* the last operation was a step that made the IRQ entry and executed the
\* RTI of the handler
IrqRtiStep ==
    op = "cpu_execute" /\ IrqStep /\ mach.log[8][1] = "read" /\ mach.log[8][3] = 64

\* C30: the IRQ entry from PC = p, SP = s and flags f followed by the RTI
\* of the handler leaves PC = p, SP = s and the flags N, V, D, I, Z, C as f.
\* The NMI entry pushes p and f from s on and BRK at q pushes q + 2 and f,
\* leaving SP three lower, and the RTI that follows takes PC, the flags and
\* SP back from what was pushed; so BRK at F807 with SP and the flags as
\* the program set them returns to F809 with those.
C30_EntryRtiInverse ==
    /\ IrqRtiStep =>
          /\ mach.PC = pre.PC /\ mach.SP = pre.SP
          /\ Flags(mach) = Flags(pre) /\ mach.I_Flag = 0
    /\ op = "cpu_nmi" =>
          /\ EntryWrites(mach.log, 3, pre.PC, pre.SP, Flags(pre) + 32)
          /\ mach.SP = (pre.SP + 253) % 256
    /\ BrkStep =>
          /\ EntryWrites(mach.log, 3, (pre.PC + 2) % 65536, pre.SP, Flags(pre) + 48)
          /\ mach.SP = (pre.SP + 253) % 256
    /\ RtiAfterEntry =>
          /\ mach.PC = pre.log[3][3] * 256 + pre.log[4][3]
          /\ mach.SP = pre.log[3][2] - 256
          /\ Flags(mach) = BitAnd(pre.log[5][3], 207)
          /\ nmis = 0 =>
                /\ mach.PC = 63497
                /\ mach.SP = Prog(63489)
                /\ Flags(mach) = BitAnd(Prog(63492), 207)

\* BRK at F807 with SP = 00 and the flags N and D: the RTI of the handler
\* returned to F809 with SP = 00, N and D set and I clear again
C30_Witness ==
    /\ RtiAfterEntry /\ preop = "cpu_execute" /\ nmis = 0
    /\ pre.I_Flag # 0 /\ pre.SP = 253
    /\ mach.PC = 63497 /\ mach.SP = 0 /\ Flags(mach) = 136



-----------------------------------------------------------------------------
(* cpu6502.c, uk101re.c: the cycles a step returns to the batch loop *)

\* C28: every step returns at least 2 cycles, whatever the opcode byte.
\* (A byte that is no opcode of the switch goes to illegal_opcode, which
\* adds no cycle: such a step returns 0, or 7 after an IRQ entry.)
C28_StepCycles == op = "cpu_execute" => mach.cycles >= 2



-----------------------------------------------------------------------------
(* uk101re.c, terminal.c: ACTION, written by the thread and by the main    *)
(* loop without a lock                                                     *)

\* the step of the thread that takes a Ctrl-R and sets ACTION
SetsReset ==
    /\ tpc = "sleep" /\ tty # <<>> /\ Head(tty) = CTRL_R
    /\ tty' = Tail(tty)
    /\ mach'.ACTION_ = ACTION_RESET

\* C26: no request is set between the reset of the main loop and its
\* ACTION = ACTION_NONE, where the one step the main loop has left clears
\* it with no reset to follow: the main loop never clears a request that
\* arrived after the reset it has just performed.
C26_NoLostRequest == [][SetsReset => dpc # "clear"]_vars



-----------------------------------------------------------------------------
(* terminal.c: the slot stdin_value / stdin_has_data between the thread    *)
(* and read_keyboard                                                       *)

\* the keys of s that go to the emulated keyboard
Ordinary(s) == SelectSeq(s, LAMBDA k : k \notin {CTRL_R, CTRL_X})

\* the bytes typed and not yet returned by a data read, oldest first: the
\* one in the slot, the one the thread holds, those it has not taken yet
Pending ==
    (IF mach.stdin_has_data # 0 THEN <<mach.stdin_value>> ELSE <<>>)
    \o (IF tpc \in {"wait", "value", "ready"} THEN <<tch>> ELSE <<>>)
    \o Ordinary(tty)

\* the reads of the ACIA data register the operation that gave m made
DataReads(m) ==
    SelectSeq(m.log, LAMBDA e : e[1] = "read" /\ InAcia(e[2]) /\ e[2] % 2 = 1)

\* C27: a key typed, if not Ctrl-R or Ctrl-X, joins the end of the bytes
\* pending.  A step whose first data read finds the slot full returns the
\* oldest byte pending (0A as 0D) and takes it, and it alone, out of them;
\* every other data read returns 0 and takes nothing.  No other step of
\* the thread or of the main loop changes the bytes pending or their order.
C27_KeyboardHandOff ==
    [][IF typed' # typed
       THEN Pending' = Pending \o Ordinary(<<tty'[Len(tty')]>>)
       ELSE IF DRan /\ DataReads(mach') # <<>> /\ mach.stdin_has_data # 0
       THEN /\ Pending # <<>>
            /\ DataReads(mach')[1][3] = (IF Head(Pending) = 10 THEN 13 ELSE Head(Pending))
            /\ \A j \in 2 .. Len(DataReads(mach')) : DataReads(mach')[j][3] = 0
            /\ Pending' = Tail(Pending)
       ELSE /\ Pending' = Pending
            /\ DRan => \A j \in 1 .. Len(DataReads(mach')) : DataReads(mach')[j][3] = 0]_vars

\* the keys 0A and A were typed: 0D has been read and echoed, and the last
\* step read A from the data register, leaving nothing pending
C27_Witness ==
    /\ typed = 2 /\ Pending = <<>>
    /\ op = "cpu_execute"
    /\ mach.stdout = <<13>>
    /\ Len(DataReads(mach)) = 1 /\ DataReads(mach)[1][3] = 65



-----------------------------------------------------------------------------
(* terminal.c: the control keys behind keys the program has not read, with *)
(* a program that polls the ACIA and one that never reads it               *)

\* F800 JMP $F800
SpinRom == At(63488, <<76, 0, 248>>) @@ Vectors(63488, 63488, 63488)

\* the program starts with no key or one key typed ahead
KeysInit ==
    /\ \E rom \in {EchoRom, SpinRom} :
          /\ mach = Boot(rom, FALSE, <<>>)
          /\ pre = Call(Loaded(rom, FALSE, <<>>), "main")
    /\ nmis = 0 /\ resets = 0
    /\ tty \in {<<>>} \cup {<<k>> : k \in Keys}
    /\ typed = 0
    /\ dpc = "run" /\ batch = 0
    /\ tpc = "sleep" /\ tch = 0

KeysSpec == KeysInit /\ [][DNext]_vars

\* the main loop goes on until exit(), and the thread takes its next step
KeysLive ==
    /\ KeysSpec
    /\ MainFair
    /\ WF_vars(TGet) /\ WF_vars(TWait) /\ WF_vars(TValue) /\ WF_vars(TReady)

\* a Ctrl-R or Ctrl-X typed that the thread has not taken yet
ControlKeyTyped == \E i \in 1 .. Len(tty) : tty[i] \in {CTRL_R, CTRL_X}

\* C29: a Ctrl-R or Ctrl-X typed is eventually taken by the thread, which
\* sets ACTION or exits as it takes it, unless the program has exited
\* before, whatever the program does and whatever was typed before.
C29_ControlKeysTaken == ControlKeyTyped ~> (tpc = "exit" \/ ~ControlKeyTyped)

=============================================================================
